---- MODULE Spec2Model ----
(***************************************************************************)
(* Red-black tree of src/StdSTL/my_rb_tree/my_rb_tree.h (mystl::rb_tree),  *)
(* instantiated as the set variant (payload = key, comparator = <).        *)
(* Nodes live in a heap addressed by small integers; the header is a node  *)
(* of the same heap, so root(), leftmost() and rightmost() alias the       *)
(* header's parent, left and right fields exactly as in the source.        *)
(* Spec keeps every node at the address the allocator gave it; SpecCanon   *)
(* makes the same calls and keeps one heap of each class of heaps that     *)
(* differ only in their addresses, which lets it reach deeper trees.       *)
(***************************************************************************)
EXTENDS Integers, Sequences, FiniteSets, TLC

\* ---------------------------------------------------------------- bounds
\* the most nodes a tree holds under SpecCanon and SpecUnique
MaxNodes == 7
\* node addresses of the heap: the most nodes a tree holds under SpecDeep
MaxDeep == 10
\* the most nodes a tree holds under Spec, which keeps every address as the
\* allocator gave it
MaxPlain == 4
\* keys are 1..MaxKey
MaxKey == 3
\* addresses for headers: the most headers ever allocated in one behaviour
MaxHeaders == 3

\* ------------------------------------------------------- program constants
NIL == -1
rb_tree_red == FALSE
rb_tree_black == TRUE

HeaderAddr == 0
Nodes == 1..MaxDeep
Addrs == 0..(MaxDeep + MaxHeaders - 1)
\* headers come from base_allocator, nodes from node_allocator
Headers == Addrs \ Nodes
Keys == 1..MaxKey
\* keys of SpecUnique: as many distinct keys as a tree has room for
UniqueKeys == 1..MaxNodes
AllKeys == Keys \cup UniqueKeys

VARIABLES t, cnt, multi
vars == <<t, cnt, multi>>

\* ------------------------------------------------------------ accessors
root(tr) == tr.parent[tr.header_]
leftmost(tr) == tr.left[tr.header_]
rightmost(tr) == tr.right[tr.header_]
begin(tr) == leftmost(tr)
end(tr) == tr.header_
key_comp_(a, b) == a < b
get_key(tr, n) == tr.value[n]

\* ------------------------------------------------- structural primitives
RECURSIVE rb_tree_min(_, _)
rb_tree_min(tr, x) ==
    IF tr.left[x] # NIL THEN rb_tree_min(tr, tr.left[x]) ELSE x

RECURSIVE rb_tree_max(_, _)
rb_tree_max(tr, x) ==
    IF tr.right[x] # NIL THEN rb_tree_max(tr, tr.right[x]) ELSE x

rb_tree_is_lchild(tr, node) == node = tr.left[tr.parent[node]]

rb_tree_is_red(tr, node) == node # NIL /\ tr.color[node] = rb_tree_red

rb_tree_set_black(tr, node) ==
    IF node # NIL THEN [tr EXCEPT !.color[node] = rb_tree_black] ELSE tr

rb_tree_set_red(tr, node) ==
    IF node # NIL THEN [tr EXCEPT !.color[node] = rb_tree_red] ELSE tr

RECURSIVE rb_tree_next_climb(_, _)
rb_tree_next_climb(tr, node) ==
    IF ~rb_tree_is_lchild(tr, node) THEN rb_tree_next_climb(tr, tr.parent[node])
    ELSE tr.parent[node]

rb_tree_next(tr, node) ==
    IF tr.right[node] # NIL THEN rb_tree_min(tr, tr.right[node])
    ELSE rb_tree_next_climb(tr, node)

\* ------------------------------------------------------ iterator protocol
RECURSIVE inc_climb(_, _, _)
inc_climb(tr, node, y) ==
    IF node = tr.right[y] THEN inc_climb(tr, y, tr.parent[y]) ELSE <<node, y>>

inc(tr, node) ==
    IF tr.right[node] # NIL THEN rb_tree_min(tr, tr.right[node])
    ELSE LET r == inc_climb(tr, node, tr.parent[node])
         IN IF tr.right[r[1]] # r[2] THEN r[2] ELSE r[1]

RECURSIVE dec_climb(_, _, _)
dec_climb(tr, node, y) ==
    IF node = tr.left[y] THEN dec_climb(tr, y, tr.parent[y]) ELSE y

\* mutant of dec: no special case for the header
dec_without_header_case(tr, node) ==
    IF tr.left[node] # NIL THEN rb_tree_max(tr, tr.left[node])
    ELSE dec_climb(tr, node, tr.parent[node])

dec(tr, node) ==
    IF tr.parent[tr.parent[node]] = node /\ tr.color[node] = rb_tree_red
    THEN tr.right[node]
    ELSE IF tr.left[node] # NIL THEN rb_tree_max(tr, tr.left[node])
    ELSE dec_climb(tr, node, tr.parent[node])

\* --------------------------------------------------------------- rotations
\* Every multi-step routine is written as the composition of its statements,
\* each a local operator from heap to heap, applied in source order.
\* mutant of rb_tree_rotate_left: the subtree that changes sides keeps its
\* old parent link
rb_tree_rotate_left_orphans_inner(tr, x) ==
    LET y == tr.right[x]
        s1(a) == [a EXCEPT !.right[x] = a.left[y]]
        s3(a) == [a EXCEPT !.parent[y] = a.parent[x]]
        s4(a) == IF x = root(a) THEN [a EXCEPT !.parent[a.header_] = y]
                 ELSE IF rb_tree_is_lchild(a, x)
                      THEN [a EXCEPT !.left[a.parent[x]] = y]
                      ELSE [a EXCEPT !.right[a.parent[x]] = y]
        s5(a) == [a EXCEPT !.left[y] = x, !.parent[x] = y]
    IN s5(s4(s3(s1(tr))))

rb_tree_rotate_left(tr, x) ==
    LET y == tr.right[x]
        s1(a) == [a EXCEPT !.right[x] = a.left[y]]
        s2(a) == IF a.left[y] # NIL THEN [a EXCEPT !.parent[a.left[y]] = x] ELSE a
        s3(a) == [a EXCEPT !.parent[y] = a.parent[x]]
        s4(a) == IF x = root(a) THEN [a EXCEPT !.parent[a.header_] = y]
                 ELSE IF rb_tree_is_lchild(a, x)
                      THEN [a EXCEPT !.left[a.parent[x]] = y]
                      ELSE [a EXCEPT !.right[a.parent[x]] = y]
        s5(a) == [a EXCEPT !.left[y] = x, !.parent[x] = y]
    IN s5(s4(s3(s2(s1(tr)))))

\* mutant of rb_tree_rotate_right: the subtree that changes sides keeps its
\* old parent link
rb_tree_rotate_right_orphans_inner(tr, x) ==
    LET y == tr.left[x]
        s1(a) == [a EXCEPT !.left[x] = a.right[y]]
        s3(a) == [a EXCEPT !.parent[y] = a.parent[x]]
        s4(a) == IF x = root(a) THEN [a EXCEPT !.parent[a.header_] = y]
                 ELSE IF rb_tree_is_lchild(a, x)
                      THEN [a EXCEPT !.left[a.parent[x]] = y]
                      ELSE [a EXCEPT !.right[a.parent[x]] = y]
        s5(a) == [a EXCEPT !.right[y] = x, !.parent[x] = y]
    IN s5(s4(s3(s1(tr))))

rb_tree_rotate_right(tr, x) ==
    LET y == tr.left[x]
        s1(a) == [a EXCEPT !.left[x] = a.right[y]]
        s2(a) == IF a.right[y] # NIL THEN [a EXCEPT !.parent[a.right[y]] = x] ELSE a
        s3(a) == [a EXCEPT !.parent[y] = a.parent[x]]
        s4(a) == IF x = root(a) THEN [a EXCEPT !.parent[a.header_] = y]
                 ELSE IF rb_tree_is_lchild(a, x)
                      THEN [a EXCEPT !.left[a.parent[x]] = y]
                      ELSE [a EXCEPT !.right[a.parent[x]] = y]
        s5(a) == [a EXCEPT !.right[y] = x, !.parent[x] = y]
    IN s5(s4(s3(s2(s1(tr)))))

\* ------------------------------------------------------ rebalancing engine
\* cases 4 and 5 of the insert fixup, parent a left child (mirror: right child)
insert_fix_left(tr, x) ==
    LET inner == ~rb_tree_is_lchild(tr, x)
        x1 == IF inner THEN tr.parent[x] ELSE x
        s1(a) == IF inner THEN rb_tree_rotate_left(a, x1) ELSE a
        s2(a) == rb_tree_set_black(a, a.parent[x1])
        s3(a) == rb_tree_set_red(a, a.parent[a.parent[x1]])
        s4(a) == rb_tree_rotate_right(a, a.parent[a.parent[x1]])
    IN s4(s3(s2(s1(tr))))

insert_fix_right(tr, x) ==
    LET inner == rb_tree_is_lchild(tr, x)
        x1 == IF inner THEN tr.parent[x] ELSE x
        s1(a) == IF inner THEN rb_tree_rotate_right(a, x1) ELSE a
        s2(a) == rb_tree_set_black(a, a.parent[x1])
        s3(a) == rb_tree_set_red(a, a.parent[a.parent[x1]])
        s4(a) == rb_tree_rotate_left(a, a.parent[a.parent[x1]])
    IN s4(s3(s2(s1(tr))))

\* mutant of insert_recolor: the grandparent is not turned red
insert_recolor_keeps_grandparent(tr, x, uncle) ==
    LET s1(a) == rb_tree_set_black(a, a.parent[x])
        s2(a) == rb_tree_set_black(a, uncle)
    IN s2(s1(tr))

\* case 3 of the insert fixup: parent and uncle red
insert_recolor(tr, x, uncle) ==
    LET s1(a) == rb_tree_set_black(a, a.parent[x])
        s2(a) == rb_tree_set_black(a, uncle)
        s3(a) == rb_tree_set_red(a, a.parent[a.parent[x]])
    IN s3(s2(s1(tr)))

RECURSIVE insert_rebalance_loop(_, _)
insert_rebalance_loop(tr, x) ==
    IF x # root(tr) /\ rb_tree_is_red(tr, tr.parent[x])
    THEN IF rb_tree_is_lchild(tr, tr.parent[x])
         THEN LET uncle == tr.right[tr.parent[tr.parent[x]]]
              IN IF uncle # NIL /\ rb_tree_is_red(tr, uncle)
                 THEN insert_rebalance_loop(insert_recolor(tr, x, uncle),
                                            tr.parent[tr.parent[x]])
                 ELSE insert_fix_left(tr, x)
         ELSE LET uncle == tr.left[tr.parent[tr.parent[x]]]
              IN IF uncle # NIL /\ rb_tree_is_red(tr, uncle)
                 THEN insert_rebalance_loop(insert_recolor(tr, x, uncle),
                                            tr.parent[tr.parent[x]])
                 ELSE insert_fix_right(tr, x)
    ELSE tr

\* the number of parent links from node n up to the root
RECURSIVE Depth(_, _)
Depth(tr, n) == IF n = root(tr) THEN 0 ELSE 1 + Depth(tr, tr.parent[n])

\* one more pass of a loop, put in front of the passes that follow it
Pass(step, rest) == [tr |-> rest.tr, steps |-> <<step>> \o rest.steps]

\* the run of the insert fixup loop from x: the heap it leaves and, for each
\* pass through the loop body, the case taken, the number of levels x moved
\* up and the number of rotations made
RECURSIVE insert_rebalance_run(_, _)

\* mutant of insert_rebalance_run: after a recolouring x moves to its parent
insert_rebalance_run_climbs_one(tr, x) ==
    IF x # root(tr) /\ rb_tree_is_red(tr, tr.parent[x])
    THEN IF rb_tree_is_lchild(tr, tr.parent[x])
         THEN LET uncle == tr.right[tr.parent[tr.parent[x]]]
              IN IF uncle # NIL /\ rb_tree_is_red(tr, uncle)
                 THEN Pass([kind |-> "recolor",
                            up |-> Depth(tr, x) - Depth(tr, tr.parent[x]),
                            rotations |-> 0],
                           insert_rebalance_run(insert_recolor(tr, x, uncle),
                                                tr.parent[x]))
                 ELSE [tr |-> insert_fix_left(tr, x),
                       steps |-> <<[kind |-> "rotate", up |-> 0,
                                    rotations |-> IF rb_tree_is_lchild(tr, x)
                                                  THEN 1 ELSE 2]>>]
         ELSE LET uncle == tr.left[tr.parent[tr.parent[x]]]
              IN IF uncle # NIL /\ rb_tree_is_red(tr, uncle)
                 THEN Pass([kind |-> "recolor",
                            up |-> Depth(tr, x) - Depth(tr, tr.parent[x]),
                            rotations |-> 0],
                           insert_rebalance_run(insert_recolor(tr, x, uncle),
                                                tr.parent[x]))
                 ELSE [tr |-> insert_fix_right(tr, x),
                       steps |-> <<[kind |-> "rotate", up |-> 0,
                                    rotations |-> IF rb_tree_is_lchild(tr, x)
                                                  THEN 2 ELSE 1]>>]
    ELSE [tr |-> tr, steps |-> <<>>]

insert_rebalance_run(tr, x) ==
    IF x # root(tr) /\ rb_tree_is_red(tr, tr.parent[x])
    THEN IF rb_tree_is_lchild(tr, tr.parent[x])
         THEN LET uncle == tr.right[tr.parent[tr.parent[x]]]
              IN IF uncle # NIL /\ rb_tree_is_red(tr, uncle)
                 THEN Pass([kind |-> "recolor",
                            up |-> Depth(tr, x) - Depth(tr, tr.parent[tr.parent[x]]),
                            rotations |-> 0],
                           insert_rebalance_run(insert_recolor(tr, x, uncle),
                                                tr.parent[tr.parent[x]]))
                 ELSE [tr |-> insert_fix_left(tr, x),
                       steps |-> <<[kind |-> "rotate", up |-> 0,
                                    rotations |-> IF rb_tree_is_lchild(tr, x)
                                                  THEN 1 ELSE 2]>>]
         ELSE LET uncle == tr.left[tr.parent[tr.parent[x]]]
              IN IF uncle # NIL /\ rb_tree_is_red(tr, uncle)
                 THEN Pass([kind |-> "recolor",
                            up |-> Depth(tr, x) - Depth(tr, tr.parent[tr.parent[x]]),
                            rotations |-> 0],
                           insert_rebalance_run(insert_recolor(tr, x, uncle),
                                                tr.parent[tr.parent[x]]))
                 ELSE [tr |-> insert_fix_right(tr, x),
                       steps |-> <<[kind |-> "rotate", up |-> 0,
                                    rotations |-> IF rb_tree_is_lchild(tr, x)
                                                  THEN 2 ELSE 1]>>]
    ELSE [tr |-> tr, steps |-> <<>>]

\* mutant of set_root_black: the root keeps the colour the loop left it
set_root_black_skipped(tr) == tr

set_root_black(tr) == rb_tree_set_black(tr, root(tr))

\* mutant of rb_tree_insert_rebalance: the new node is coloured and the root
\* blackened, the loop is not run
rb_tree_insert_rebalance_without_loop(tr, x) ==
    set_root_black(rb_tree_set_red(tr, x))

rb_tree_insert_rebalance(tr, x) ==
    set_root_black(insert_rebalance_loop(rb_tree_set_red(tr, x), x))

\* child is black or absent
not_red(tr, n) == n = NIL \/ ~rb_tree_is_red(tr, n)

\* case 1 of the delete fixup, x a left child: red brother
erase_case1_left(tr, xp) ==
    LET brother == tr.right[xp]
        s1(a) == rb_tree_set_black(a, brother)
        s2(a) == rb_tree_set_red(a, xp)
        s3(a) == rb_tree_rotate_left(a, xp)
    IN IF rb_tree_is_red(tr, brother) THEN s3(s2(s1(tr))) ELSE tr

erase_case1_right(tr, xp) ==
    LET brother == tr.left[xp]
        s1(a) == rb_tree_set_black(a, brother)
        s2(a) == rb_tree_set_red(a, xp)
        s3(a) == rb_tree_rotate_right(a, xp)
    IN IF rb_tree_is_red(tr, brother) THEN s3(s2(s1(tr))) ELSE tr

\* case 3 of the delete fixup, x a left child: brother's far child not red
erase_case3_left(tr, xp) ==
    LET brother == tr.right[xp]
        s1(a) == IF a.left[brother] # NIL
                 THEN rb_tree_set_black(a, a.left[brother]) ELSE a
        s2(a) == rb_tree_set_red(a, brother)
        s3(a) == rb_tree_rotate_right(a, brother)
    IN IF not_red(tr, tr.right[brother]) THEN s3(s2(s1(tr))) ELSE tr

erase_case3_right(tr, xp) ==
    LET brother == tr.left[xp]
        s1(a) == IF a.right[brother] # NIL
                 THEN rb_tree_set_black(a, a.right[brother]) ELSE a
        s2(a) == rb_tree_set_red(a, brother)
        s3(a) == rb_tree_rotate_left(a, brother)
    IN IF not_red(tr, tr.left[brother]) THEN s3(s2(s1(tr))) ELSE tr

\* case 4 of the delete fixup, x a left child: brother's far child red
erase_case4_left(tr, xp) ==
    LET brother == tr.right[xp]
        s1(a) == [a EXCEPT !.color[brother] = a.color[xp]]
        s2(a) == rb_tree_set_black(a, xp)
        s3(a) == IF a.right[brother] # NIL
                 THEN rb_tree_set_black(a, a.right[brother]) ELSE a
        s4(a) == rb_tree_rotate_left(a, xp)
    IN s4(s3(s2(s1(tr))))

erase_case4_right(tr, xp) ==
    LET brother == tr.left[xp]
        s1(a) == [a EXCEPT !.color[brother] = a.color[xp]]
        s2(a) == rb_tree_set_black(a, xp)
        s3(a) == IF a.left[brother] # NIL
                 THEN rb_tree_set_black(a, a.left[brother]) ELSE a
        s4(a) == rb_tree_rotate_right(a, xp)
    IN s4(s3(s2(s1(tr))))

\* after case 1: both children of the brother black or absent (case 2)
brother_children_black(tr, brother) ==
    not_red(tr, tr.left[brother]) /\ not_red(tr, tr.right[brother])

\* the delete-fixup loop; yields the heap and the final x
RECURSIVE erase_rebalance_loop(_, _, _)
RECURSIVE erase_after_case1(_, _, _)
erase_after_case1(tr, x, xp) ==
    IF x = tr.left[xp]
    THEN IF brother_children_black(tr, tr.right[xp])
         THEN erase_rebalance_loop(rb_tree_set_red(tr, tr.right[xp]), xp, tr.parent[xp])
         ELSE [tr |-> erase_case4_left(erase_case3_left(tr, xp), xp), x |-> x]
    ELSE IF brother_children_black(tr, tr.left[xp])
         THEN erase_rebalance_loop(rb_tree_set_red(tr, tr.left[xp]), xp, tr.parent[xp])
         ELSE [tr |-> erase_case4_right(erase_case3_right(tr, xp), xp), x |-> x]

erase_rebalance_loop(tr, x, xp) ==
    IF x # root(tr) /\ (x = NIL \/ ~rb_tree_is_red(tr, x))
    THEN IF x = tr.left[xp]
         THEN erase_after_case1(erase_case1_left(tr, xp), x, xp)
         ELSE erase_after_case1(erase_case1_right(tr, xp), x, xp)
    ELSE [tr |-> tr, x |-> x]

\* rotations of the passes of the delete fixup: case 1, and cases 3 and 4
case1_rotations(tr, brother) == IF rb_tree_is_red(tr, brother) THEN 1 ELSE 0
case34_rotations(tr, far) == IF not_red(tr, far) THEN 2 ELSE 1

\* the run of the delete fixup loop from x below xp: the heap and the x it
\* leaves and, for each pass through the loop body, the case that ended the
\* pass, the depth of xp when the pass began and the rotations made.  r1 is
\* the number of rotations case 1 made in the pass, level the depth.
RECURSIVE erase_rebalance_run(_, _, _)

erase_run_after_case1(tr, x, xp, r1, level) ==
    LET more(rest, step) ==
            [tr |-> rest.tr, x |-> rest.x, steps |-> <<step>> \o rest.steps]
    IN IF x = tr.left[xp]
       THEN IF brother_children_black(tr, tr.right[xp])
            THEN more(erase_rebalance_run(rb_tree_set_red(tr, tr.right[xp]),
                                          xp, tr.parent[xp]),
                      [kind |-> "case2", level |-> level, rotations |-> r1])
            ELSE [tr |-> erase_case4_left(erase_case3_left(tr, xp), xp),
                  x |-> x,
                  steps |-> <<[kind |-> "case4", level |-> level,
                               rotations |->
                                   r1 + case34_rotations(tr, tr.right[tr.right[xp]])]>>]
       ELSE IF brother_children_black(tr, tr.left[xp])
            THEN more(erase_rebalance_run(rb_tree_set_red(tr, tr.left[xp]),
                                          xp, tr.parent[xp]),
                      [kind |-> "case2", level |-> level, rotations |-> r1])
            ELSE [tr |-> erase_case4_right(erase_case3_right(tr, xp), xp),
                  x |-> x,
                  steps |-> <<[kind |-> "case4", level |-> level,
                               rotations |->
                                   r1 + case34_rotations(tr, tr.left[tr.left[xp]])]>>]

erase_rebalance_run(tr, x, xp) ==
    IF x # root(tr) /\ (x = NIL \/ ~rb_tree_is_red(tr, x))
    THEN IF x = tr.left[xp]
         THEN erase_run_after_case1(erase_case1_left(tr, xp), x, xp,
                                    case1_rotations(tr, tr.right[xp]),
                                    Depth(tr, xp))
         ELSE erase_run_after_case1(erase_case1_right(tr, xp), x, xp,
                                    case1_rotations(tr, tr.left[xp]),
                                    Depth(tr, xp))
    ELSE [tr |-> tr, x |-> x, steps |-> <<>>]

\* mutant of erase_relink_two: the colours of y and z are not exchanged
erase_relink_two_keeps_colours(tr, z, y, x) ==
    LET far == y # tr.right[z]
        xp == IF far THEN tr.parent[y] ELSE y
        s1(a) == [a EXCEPT !.parent[a.left[z]] = y]
        s2(a) == [a EXCEPT !.left[y] = a.left[z]]
        s3(a) == IF far /\ x # NIL THEN [a EXCEPT !.parent[x] = a.parent[y]] ELSE a
        s4(a) == IF far THEN [a EXCEPT !.left[a.parent[y]] = x] ELSE a
        s5(a) == IF far THEN [a EXCEPT !.right[y] = a.right[z]] ELSE a
        s6(a) == IF far THEN [a EXCEPT !.parent[a.right[z]] = y] ELSE a
        s7(a) == IF root(a) = z THEN [a EXCEPT !.parent[a.header_] = y]
                 ELSE IF rb_tree_is_lchild(a, z)
                      THEN [a EXCEPT !.left[a.parent[z]] = y]
                      ELSE [a EXCEPT !.right[a.parent[z]] = y]
        s8(a) == [a EXCEPT !.parent[y] = a.parent[z]]
    IN [tr |-> s8(s7(s6(s5(s4(s3(s2(s1(tr)))))))), xp |-> xp]

\* relinking phase for z with two children: successor y takes z's place
erase_relink_two(tr, z, y, x) ==
    LET far == y # tr.right[z]
        xp == IF far THEN tr.parent[y] ELSE y
        s1(a) == [a EXCEPT !.parent[a.left[z]] = y]
        s2(a) == [a EXCEPT !.left[y] = a.left[z]]
        s3(a) == IF far /\ x # NIL THEN [a EXCEPT !.parent[x] = a.parent[y]] ELSE a
        s4(a) == IF far THEN [a EXCEPT !.left[a.parent[y]] = x] ELSE a
        s5(a) == IF far THEN [a EXCEPT !.right[y] = a.right[z]] ELSE a
        s6(a) == IF far THEN [a EXCEPT !.parent[a.right[z]] = y] ELSE a
        s7(a) == IF root(a) = z THEN [a EXCEPT !.parent[a.header_] = y]
                 ELSE IF rb_tree_is_lchild(a, z)
                      THEN [a EXCEPT !.left[a.parent[z]] = y]
                      ELSE [a EXCEPT !.right[a.parent[z]] = y]
        s8(a) == [a EXCEPT !.parent[y] = a.parent[z]]
        s9(a) == [a EXCEPT !.color[y] = a.color[z], !.color[z] = a.color[y]]
    IN [tr |-> s9(s8(s7(s6(s5(s4(s3(s2(s1(tr))))))))), xp |-> xp]

\* mutant of erase_unlink_one: rightmost is left as it was
erase_unlink_one_keeps_rightmost(tr, z, x) ==
    LET xp == tr.parent[z]
        s1(a) == IF x # NIL THEN [a EXCEPT !.parent[x] = a.parent[z]] ELSE a
        s2(a) == IF root(a) = z THEN [a EXCEPT !.parent[a.header_] = x]
                 ELSE IF rb_tree_is_lchild(a, z)
                      THEN [a EXCEPT !.left[a.parent[z]] = x]
                      ELSE [a EXCEPT !.right[a.parent[z]] = x]
        s3(a) == IF leftmost(a) = z
                 THEN [a EXCEPT !.left[a.header_] =
                                    IF x = NIL THEN xp ELSE rb_tree_min(a, x)]
                 ELSE a
    IN [tr |-> s3(s2(s1(tr))), xp |-> xp]

\* unlinking phase for z with at most one child x
erase_unlink_one(tr, z, x) ==
    LET xp == tr.parent[z]
        s1(a) == IF x # NIL THEN [a EXCEPT !.parent[x] = a.parent[z]] ELSE a
        s2(a) == IF root(a) = z THEN [a EXCEPT !.parent[a.header_] = x]
                 ELSE IF rb_tree_is_lchild(a, z)
                      THEN [a EXCEPT !.left[a.parent[z]] = x]
                      ELSE [a EXCEPT !.right[a.parent[z]] = x]
        s3(a) == IF leftmost(a) = z
                 THEN [a EXCEPT !.left[a.header_] =
                                    IF x = NIL THEN xp ELSE rb_tree_min(a, x)]
                 ELSE a
        s4(a) == IF rightmost(a) = z
                 THEN [a EXCEPT !.right[a.header_] =
                                    IF x = NIL THEN xp ELSE rb_tree_max(a, x)]
                 ELSE a
    IN [tr |-> s4(s3(s2(s1(tr)))), xp |-> xp]

\* the test that guards the fixup: the node y to be removed is not red
erase_needs_fixup(tr, y) == ~rb_tree_is_red(tr, y)

\* the fixup that follows the unlinking, run when the removed colour is black
erase_fixup(u, z, x) ==
    LET blacken(f) == IF f.x # NIL THEN rb_tree_set_black(f.tr, f.x) ELSE f.tr
    IN IF erase_needs_fixup(u.tr, z)
       THEN blacken(erase_rebalance_loop(u.tr, x, u.xp))
       ELSE u.tr

\* unlinks z from the tree and rebalances; z itself is the node to destroy
rb_tree_erase_rebalance(tr, z) ==
    LET y == IF tr.left[z] = NIL \/ tr.right[z] = NIL THEN z ELSE rb_tree_next(tr, z)
        x == IF tr.left[y] # NIL THEN tr.left[y] ELSE tr.right[y]
    IN IF y # z
       THEN erase_fixup(erase_relink_two(tr, z, y, x), z, x)
       ELSE erase_fixup(erase_unlink_one(tr, z, x), z, x)

\* ---------------------------------------------------------- node storage
\* node_allocator().allocate(1): any free address may be returned; the model
\* lets the allocator hand out the lowest free one.
allocate(tr) == CHOOSE a \in Nodes \ tr.alloc : \A b \in Nodes \ tr.alloc : a <= b

create_node(tr, v) ==
    LET tmp == allocate(tr)
    IN [tr |-> [tr EXCEPT !.alloc = @ \cup {tmp},
                          !.value[tmp] = v,
                          !.left[tmp] = NIL,
                          !.right[tmp] = NIL,
                          !.parent[tmp] = NIL],
        np |-> tmp]

\* the storage of a destroyed node has no contents any more
destroy_node(tr, p) ==
    [tr EXCEPT !.alloc = @ \ {p},
               !.value[p] = 0,
               !.left[p] = NIL,
               !.right[p] = NIL,
               !.parent[p] = NIL,
               !.color[p] = rb_tree_red]

\* a tree object that does not exist: not constructed yet, or destroyed
NoObject == [header_ |-> NIL, node_count_ |-> 0]

\* memory in which nothing is allocated and no tree object exists.  header_
\* and node_count_ are the members of the object the calls are made on
\* (*this); rhs holds the members of a second object, the argument of the
\* copy and move operations; alloc and halloc are the nodes and the headers
\* the allocators have handed out and not got back.
EmptyHeap ==
    [header_     |-> NIL,
     node_count_ |-> 0,
     rhs         |-> NoObject,
     alloc       |-> {},
     halloc      |-> {},
     parent      |-> [a \in Addrs |-> NIL],
     left        |-> [a \in Addrs |-> NIL],
     right       |-> [a \in Addrs |-> NIL],
     color       |-> [a \in Addrs |-> rb_tree_red],
     value       |-> [a \in Addrs |-> 0]]

\* base_allocator().allocate(1): the lowest free header address
header_allocate(tr) ==
    CHOOSE a \in Headers \ tr.halloc : \A b \in Headers \ tr.halloc : a <= b

\* mutant of rb_tree_init_in: the header is coloured black
rb_tree_init_in_black_header(tr) ==
    LET h == header_allocate(tr)
    IN [tr EXCEPT !.header_ = h,
                  !.halloc = @ \cup {h},
                  !.color[h] = rb_tree_black,
                  !.parent[h] = NIL,
                  !.left[h] = h,
                  !.right[h] = h,
                  !.node_count_ = 0]

\* rb_tree_init() called on *this in memory tr
rb_tree_init_in(tr) ==
    LET h == header_allocate(tr)
    IN [tr EXCEPT !.header_ = h,
                  !.halloc = @ \cup {h},
                  !.color[h] = rb_tree_red,
                  !.parent[h] = NIL,
                  !.left[h] = h,
                  !.right[h] = h,
                  !.node_count_ = 0]

\* the first tree constructed in empty memory
rb_tree_init == rb_tree_init_in(EmptyHeap)

\* ------------------------------------------------------------- lookups
RECURSIVE find_descent(_, _, _, _)
find_descent(tr, x, y, key) ==
    IF x # NIL
    THEN IF ~key_comp_(get_key(tr, x), key)
         THEN find_descent(tr, tr.left[x], x, key)
         ELSE find_descent(tr, tr.right[x], y, key)
    ELSE y

\* mutant of find: the final equality test is missing
find_without_check(tr, key) == find_descent(tr, root(tr), tr.header_, key)

find(tr, key) ==
    LET j == find_descent(tr, root(tr), tr.header_, key)
    IN IF j = end(tr) \/ key_comp_(key, get_key(tr, j)) THEN end(tr) ELSE j

\* mutant of lower_bound_descent: an equal key sends the descent right
RECURSIVE lower_bound_descent_equal_right(_, _, _, _)
lower_bound_descent_equal_right(tr, x, y, key) ==
    IF x # NIL
    THEN IF key_comp_(key, get_key(tr, x))
         THEN lower_bound_descent_equal_right(tr, tr.left[x], x, key)
         ELSE lower_bound_descent_equal_right(tr, tr.right[x], y, key)
    ELSE y

RECURSIVE lower_bound_descent(_, _, _, _)
lower_bound_descent(tr, x, y, key) ==
    IF x # NIL
    THEN IF ~key_comp_(get_key(tr, x), key)
         THEN lower_bound_descent(tr, tr.left[x], x, key)
         ELSE lower_bound_descent(tr, tr.right[x], y, key)
    ELSE y

lower_bound(tr, key) == lower_bound_descent(tr, root(tr), tr.header_, key)

\* mutant of upper_bound_descent: an equal key sends the descent left
RECURSIVE upper_bound_descent_equal_left(_, _, _, _)
upper_bound_descent_equal_left(tr, x, y, key) ==
    IF x # NIL
    THEN IF ~key_comp_(get_key(tr, x), key)
         THEN upper_bound_descent_equal_left(tr, tr.left[x], x, key)
         ELSE upper_bound_descent_equal_left(tr, tr.right[x], y, key)
    ELSE y

RECURSIVE upper_bound_descent(_, _, _, _)
upper_bound_descent(tr, x, y, key) ==
    IF x # NIL
    THEN IF key_comp_(key, get_key(tr, x))
         THEN upper_bound_descent(tr, tr.left[x], x, key)
         ELSE upper_bound_descent(tr, tr.right[x], y, key)
    ELSE y

upper_bound(tr, key) == upper_bound_descent(tr, root(tr), tr.header_, key)

equal_range_multi(tr, key) ==
    [first |-> lower_bound(tr, key), second |-> upper_bound(tr, key)]

\* std::distance over the bidirectional iterator: count increments
RECURSIVE distance(_, _, _)
distance(tr, first, last) ==
    IF first = last THEN 0 ELSE 1 + distance(tr, inc(tr, first), last)

count_multi(tr, key) ==
    LET p == equal_range_multi(tr, key) IN distance(tr, p.first, p.second)

\* --------------------------------------------------- insertion positions
RECURSIVE insert_pos_descent(_, _, _, _, _)
insert_pos_descent(tr, x, y, add_to_left, key) ==
    IF x # NIL
    THEN LET a == key_comp_(key, get_key(tr, x))
         IN insert_pos_descent(tr, IF a THEN tr.left[x] ELSE tr.right[x], x, a, key)
    ELSE [first |-> y, second |-> add_to_left]

\* mutant of get_insert_multi_pos: an equal key sends the descent left
RECURSIVE insert_pos_descent_equal_left(_, _, _, _, _)
insert_pos_descent_equal_left(tr, x, y, add_to_left, key) ==
    IF x # NIL
    THEN LET a == ~key_comp_(get_key(tr, x), key)
         IN insert_pos_descent_equal_left(tr, IF a THEN tr.left[x] ELSE tr.right[x], x, a, key)
    ELSE [first |-> y, second |-> add_to_left]

get_insert_multi_pos_equal_left(tr, key) ==
    insert_pos_descent_equal_left(tr, root(tr), tr.header_, TRUE, key)

get_insert_multi_pos(tr, key) ==
    insert_pos_descent(tr, root(tr), tr.header_, TRUE, key)

\* mutant of unique_pos_check: the step back to the predecessor is missing
unique_pos_check_without_dec(tr, y, add_to_left, key) ==
    IF add_to_left /\ (y = tr.header_ \/ y = begin(tr))
    THEN [first |-> [first |-> y, second |-> TRUE], second |-> TRUE]
    ELSE IF key_comp_(get_key(tr, y), key) \/ add_to_left
    THEN [first |-> [first |-> y, second |-> add_to_left], second |-> TRUE]
    ELSE [first |-> [first |-> y, second |-> add_to_left], second |-> FALSE]

\* the duplicate test that follows the descent to parent y, side add_to_left
unique_pos_check(tr, y, add_to_left, key) ==
    LET verdict(j) ==
            IF key_comp_(get_key(tr, j), key)
            THEN [first |-> [first |-> y, second |-> add_to_left], second |-> TRUE]
            ELSE [first |-> [first |-> y, second |-> add_to_left], second |-> FALSE]
    IN IF add_to_left /\ (y = tr.header_ \/ y = begin(tr))
       THEN [first |-> [first |-> y, second |-> TRUE], second |-> TRUE]
       ELSE verdict(IF add_to_left THEN dec(tr, y) ELSE y)

get_insert_unique_pos(tr, key) ==
    LET check(d) == unique_pos_check(tr, d.first, d.second, key)
    IN check(insert_pos_descent(tr, root(tr), tr.header_, TRUE, key))

\* ----------------------------------------------------------- linking
\* the linking of insert_node_at, before the rebalancing
insert_node_link(tr, x, node, add_to_left) ==
    LET s1(a) == [a EXCEPT !.parent[node] = x]
        s2(a) == IF x = a.header_
                 THEN [a EXCEPT !.parent[a.header_] = node,
                                !.left[a.header_] = node,
                                !.right[a.header_] = node]
                 ELSE IF add_to_left
                      THEN [a EXCEPT !.left[x] = node,
                                     !.left[a.header_] =
                                         IF a.left[a.header_] = x THEN node ELSE @]
                      ELSE [a EXCEPT !.right[x] = node,
                                     !.right[a.header_] =
                                         IF a.right[a.header_] = x THEN node ELSE @]
    IN s2(s1(tr))

\* mutant of insert_node_at: a node linked to the left of the leftmost node
\* does not become the leftmost
insert_node_at_keeps_leftmost(tr, x, node, add_to_left) ==
    LET s1(a) == [a EXCEPT !.parent[node] = x]
        s2(a) == IF x = a.header_
                 THEN [a EXCEPT !.parent[a.header_] = node,
                                !.left[a.header_] = node,
                                !.right[a.header_] = node]
                 ELSE IF add_to_left
                      THEN [a EXCEPT !.left[x] = node]
                      ELSE [a EXCEPT !.right[x] = node,
                                     !.right[a.header_] =
                                         IF a.right[a.header_] = x THEN node ELSE @]
        s3(a) == rb_tree_insert_rebalance(a, node)
        s4(a) == [a EXCEPT !.node_count_ = @ + 1]
    IN [tr |-> s4(s3(s2(s1(tr)))), it |-> node]

insert_node_at(tr, x, node, add_to_left) ==
    LET s1(a) == [a EXCEPT !.parent[node] = x]
        s2(a) == IF x = a.header_
                 THEN [a EXCEPT !.parent[a.header_] = node,
                                !.left[a.header_] = node,
                                !.right[a.header_] = node]
                 ELSE IF add_to_left
                      THEN [a EXCEPT !.left[x] = node,
                                     !.left[a.header_] =
                                         IF a.left[a.header_] = x THEN node ELSE @]
                      ELSE [a EXCEPT !.right[x] = node,
                                     !.right[a.header_] =
                                         IF a.right[a.header_] = x THEN node ELSE @]
        s3(a) == rb_tree_insert_rebalance(a, node)
        s4(a) == [a EXCEPT !.node_count_ = @ + 1]
    IN [tr |-> s4(s3(s2(s1(tr)))), it |-> node]

insert_value_at(tr, x, value, add_to_left) ==
    LET link(c) == insert_node_at(c.tr, x, c.np, add_to_left)
    IN link(create_node(tr, value))

\* ------------------------------------------------------ public operations
\* Each returns the resulting tree together with the values handed back to
\* the caller.  The max_size() guard of every insert cannot fire within the
\* bounded heap and is left out.
insert_multi(tr, value) ==
    LET link(res) == insert_value_at(tr, res.first, value, res.second)
    IN link(get_insert_multi_pos(tr, value))

\* std::make_pair(iterator, inserted)
make_pair(r, inserted) == [tr |-> r.tr, first |-> r.it, second |-> inserted]

insert_unique(tr, value) ==
    LET link(res) ==
            IF res.second
            THEN make_pair(insert_value_at(tr, res.first.first, value, res.first.second), TRUE)
            ELSE [tr |-> tr, first |-> res.first.first, second |-> FALSE]
    IN link(get_insert_unique_pos(tr, value))

emplace_multi(tr, value) ==
    LET link(c, res) == insert_node_at(c.tr, res.first, c.np, res.second)
        place(c) == link(c, get_insert_multi_pos(c.tr, get_key(c.tr, c.np)))
    IN place(create_node(tr, value))

emplace_unique(tr, value) ==
    LET link(c, res) ==
            IF res.second
            THEN make_pair(insert_node_at(c.tr, res.first.first, c.np, res.first.second), TRUE)
            ELSE [tr |-> destroy_node(c.tr, c.np), first |-> res.first.first, second |-> FALSE]
        place(c) == link(c, get_insert_unique_pos(c.tr, get_key(c.tr, c.np)))
    IN place(create_node(tr, value))

\* the fallback of every hinted insert: the full descent
multi_fallback(tr, key, node) ==
    LET link(pos) == insert_node_at(tr, pos.first, node, pos.second)
    IN link(get_insert_multi_pos(tr, key))

\* a refused unique insert returns pos.first.first, the parent of the place
\* where the descent ended, as the position
unique_fallback(tr, key, node) ==
    LET link(pos) ==
            IF ~pos.second
            THEN [tr |-> destroy_node(tr, node), it |-> pos.first.first]
            ELSE insert_node_at(tr, pos.first.first, node, pos.first.second)
    IN link(get_insert_unique_pos(tr, key))

\* mutant of insert_multi_use_hint: the key is not compared with the
\* element before the hint
insert_multi_use_hint_no_before(tr, hint, key, node) ==
    LET np == hint
        bnp == dec(tr, hint)
        fits == ~key_comp_(get_key(tr, hint), key)
    IN IF fits /\ tr.right[bnp] = NIL THEN insert_node_at(tr, bnp, node, FALSE)
       ELSE IF fits /\ tr.left[np] = NIL THEN insert_node_at(tr, np, node, TRUE)
       ELSE multi_fallback(tr, key, node)

insert_multi_use_hint(tr, hint, key, node) ==
    LET np == hint
        bnp == dec(tr, hint)
        fits == ~key_comp_(key, get_key(tr, bnp)) /\ ~key_comp_(get_key(tr, hint), key)
    IN IF fits /\ tr.right[bnp] = NIL THEN insert_node_at(tr, bnp, node, FALSE)
       ELSE IF fits /\ tr.left[np] = NIL THEN insert_node_at(tr, np, node, TRUE)
       ELSE multi_fallback(tr, key, node)

insert_unique_use_hint(tr, hint, key, node) ==
    LET np == hint
        bnp == dec(tr, hint)
        fits == key_comp_(get_key(tr, bnp), key) /\ key_comp_(key, get_key(tr, hint))
    IN IF fits /\ tr.right[bnp] = NIL THEN insert_node_at(tr, bnp, node, FALSE)
       ELSE IF fits /\ tr.left[np] = NIL THEN insert_node_at(tr, np, node, TRUE)
       ELSE unique_fallback(tr, key, node)

multi_hint_place(tr, hint, np, key) ==
    IF tr.node_count_ = 0 THEN insert_node_at(tr, tr.header_, np, TRUE)
    ELSE IF hint = begin(tr)
    THEN IF key_comp_(key, get_key(tr, hint))
         THEN insert_node_at(tr, hint, np, TRUE)
         ELSE multi_fallback(tr, key, np)
    ELSE IF hint = end(tr)
    THEN IF ~key_comp_(key, get_key(tr, rightmost(tr)))
         THEN insert_node_at(tr, rightmost(tr), np, FALSE)
         ELSE multi_fallback(tr, key, np)
    ELSE insert_multi_use_hint(tr, hint, key, np)

emplace_multi_use_hint(tr, hint, value) ==
    LET place(c) == multi_hint_place(c.tr, hint, c.np, get_key(c.tr, c.np))
    IN place(create_node(tr, value))

\* mutant of unique_hint_place: a hint of begin() is trusted without
\* comparing the key with the first element
unique_hint_place_trusts_begin(tr, hint, np, key) ==
    IF tr.node_count_ = 0 THEN insert_node_at(tr, tr.header_, np, TRUE)
    ELSE IF hint = begin(tr) THEN insert_node_at(tr, hint, np, TRUE)
    ELSE IF hint = end(tr)
    THEN IF key_comp_(get_key(tr, rightmost(tr)), key)
         THEN insert_node_at(tr, rightmost(tr), np, FALSE)
         ELSE unique_fallback(tr, key, np)
    ELSE insert_unique_use_hint(tr, hint, key, np)

unique_hint_place(tr, hint, np, key) ==
    IF tr.node_count_ = 0 THEN insert_node_at(tr, tr.header_, np, TRUE)
    ELSE IF hint = begin(tr)
    THEN IF key_comp_(key, get_key(tr, hint))
         THEN insert_node_at(tr, hint, np, TRUE)
         ELSE unique_fallback(tr, key, np)
    ELSE IF hint = end(tr)
    THEN IF key_comp_(get_key(tr, rightmost(tr)), key)
         THEN insert_node_at(tr, rightmost(tr), np, FALSE)
         ELSE unique_fallback(tr, key, np)
    ELSE insert_unique_use_hint(tr, hint, key, np)

emplace_unique_use_hint(tr, hint, value) ==
    LET place(c) == unique_hint_place(c.tr, hint, c.np, get_key(c.tr, c.np))
    IN place(create_node(tr, value))

\* mutant of erase: for a node with two children the successor's payload is
\* copied into it and the successor's node is the one unlinked and destroyed
erase_by_copy(tr, hint) ==
    LET two == tr.left[hint] # NIL /\ tr.right[hint] # NIL
        node == IF two THEN rb_tree_next(tr, hint) ELSE hint
        next == IF two THEN hint ELSE inc(tr, hint)
        s0(a) == [a EXCEPT !.value[hint] = a.value[node]]
        s1(a) == rb_tree_erase_rebalance(a, node)
        s2(a) == destroy_node(a, node)
        s3(a) == [a EXCEPT !.node_count_ = @ - 1]
    IN [tr |-> s3(s2(s1(s0(tr)))), it |-> next]

\* mutant of erase: the following position is taken after the node has been
\* unlinked
erase_next_after_unlink(tr, hint) ==
    LET node == hint
        s1(a) == rb_tree_erase_rebalance(a, hint)
        s2(a) == destroy_node(a, node)
        s3(a) == [a EXCEPT !.node_count_ = @ - 1]
    IN [tr |-> s3(s2(s1(tr))), it |-> inc(s1(tr), node)]

erase(tr, hint) ==
    LET node == hint
        next == inc(tr, node)
        s1(a) == rb_tree_erase_rebalance(a, hint)
        s2(a) == destroy_node(a, node)
        s3(a) == [a EXCEPT !.node_count_ = @ - 1]
    IN [tr |-> s3(s2(s1(tr))), it |-> next]

RECURSIVE erase_since(_, _)
RECURSIVE erase_since_left(_, _)
\* mutant of erase_since_left: the loop stops after the first node
erase_since_left_stops(tr, x) == destroy_node(tr, x)

erase_since_left(tr, x) == erase_since(destroy_node(tr, x), tr.left[x])

erase_since(tr, x) ==
    IF x # NIL THEN erase_since_left(erase_since(tr, tr.right[x]), x) ELSE tr

\* the nodes erase_since(x) hands to destroy_node, in the order of the calls
RECURSIVE erase_since_destroyed(_, _)
erase_since_destroyed_left(tr, x) ==
    <<x>> \o erase_since_destroyed(destroy_node(tr, x), tr.left[x])

erase_since_destroyed(tr, x) ==
    IF x # NIL
    THEN erase_since_destroyed(tr, tr.right[x])
             \o erase_since_destroyed_left(erase_since(tr, tr.right[x]), x)
    ELSE <<>>

clear_reset(tr) ==
    [tr EXCEPT !.left[tr.header_] = tr.header_,
               !.parent[tr.header_] = NIL,
               !.right[tr.header_] = tr.header_,
               !.node_count_ = 0]

clear(tr) ==
    IF tr.node_count_ # 0 THEN clear_reset(erase_since(tr, root(tr))) ELSE tr

RECURSIVE erase_range_loop(_, _, _)
erase_range_loop(tr, first, last) ==
    IF first # last
    THEN erase_range_loop(erase(tr, first).tr, inc(tr, first), last)
    ELSE tr

\* mutant of erase_range: the whole tree is cleared whenever the range starts
\* at begin()
erase_range_clears_from_begin(tr, first, last) ==
    IF first = begin(tr) THEN clear(tr)
    ELSE erase_range_loop(tr, first, last)

erase_range(tr, first, last) ==
    IF first = begin(tr) /\ last = end(tr) THEN clear(tr)
    ELSE erase_range_loop(tr, first, last)

\* mutant of erase_multi: only the first element of the range is erased
erase_multi_first_only(tr, key) ==
    LET run(p) == IF p.first # p.second
                  THEN [tr |-> erase_range(tr, p.first, inc(tr, p.first)), n |-> 1]
                  ELSE [tr |-> tr, n |-> 0]
    IN run(equal_range_multi(tr, key))

erase_multi(tr, key) ==
    LET run(p) == [tr |-> erase_range(tr, p.first, p.second),
                   n  |-> distance(tr, p.first, p.second)]
    IN run(equal_range_multi(tr, key))

erase_unique(tr, key) ==
    LET run(it) == IF it # end(tr) THEN [tr |-> erase(tr, it).tr, n |-> 1]
                   ELSE [tr |-> tr, n |-> 0]
    IN run(find(tr, key))

\* ------------------------------------------------- allocation failure
\* mutant of create_node_throws: the handler does not deallocate
create_node_throws_keeps_storage(tr, v, how) ==
    LET tmp == allocate(tr)
        s1(a) == [a EXCEPT !.alloc = @ \cup {tmp}]
    IN IF how = "allocate" THEN tr ELSE s1(tr)

\* create_node when it throws: how = "allocate" when node_allocator throws,
\* how = "construct" when the payload's constructor throws, which the
\* handler answers by giving the storage back before it rethrows
create_node_throws(tr, v, how) ==
    LET tmp == allocate(tr)
        s1(a) == [a EXCEPT !.alloc = @ \cup {tmp}]
        s2(a) == [a EXCEPT !.alloc = @ \ {tmp}]
    IN IF how = "allocate" THEN tr ELSE s2(s1(tr))

\* the calls below when the node they create cannot be created: the memory
\* they leave and whether the exception leaves them
insert_value_at_throws(tr, x, value, add_to_left, how) ==
    [tr |-> create_node_throws(tr, value, how), thrown |-> TRUE]

insert_multi_throws(tr, value, how) ==
    LET put(res) == insert_value_at_throws(tr, res.first, value, res.second, how)
    IN put(get_insert_multi_pos(tr, value))

\* a refused unique insert creates no node, so nothing is thrown
insert_unique_throws(tr, value, how) ==
    LET put(res) ==
            IF res.second
            THEN insert_value_at_throws(tr, res.first.first, value, res.first.second, how)
            ELSE [tr |-> tr, thrown |-> FALSE]
    IN put(get_insert_unique_pos(tr, value))

emplace_multi_throws(tr, value, how) ==
    [tr |-> create_node_throws(tr, value, how), thrown |-> TRUE]

emplace_unique_throws(tr, value, how) ==
    [tr |-> create_node_throws(tr, value, how), thrown |-> TRUE]

emplace_multi_use_hint_throws(tr, hint, value, how) ==
    [tr |-> create_node_throws(tr, value, how), thrown |-> TRUE]

emplace_unique_use_hint_throws(tr, hint, value, how) ==
    [tr |-> create_node_throws(tr, value, how), thrown |-> TRUE]

\* ------------------------------------------------- whole-tree operations
\* the same memory with the roles of *this and rhs exchanged: a call made on
\* the second object
Swap(tr) ==
    [tr EXCEPT !.header_ = tr.rhs.header_,
               !.node_count_ = tr.rhs.node_count_,
               !.rhs = [header_ |-> tr.header_, node_count_ |-> tr.node_count_]]

\* mutant of clone_node: the colour of x is not copied
clone_node_uncoloured(tr, x) ==
    LET set(c) == [tr |-> [c.tr EXCEPT !.left[c.np] = NIL, !.right[c.np] = NIL],
                   np |-> c.np]
    IN set(create_node(tr, tr.value[x]))

clone_node(tr, x) ==
    LET set(c) == [tr |-> [c.tr EXCEPT !.color[c.np] = tr.color[x],
                                       !.left[c.np] = NIL,
                                       !.right[c.np] = NIL],
                   np |-> c.np]
    IN set(create_node(tr, tr.value[x]))

\* copy_from(x, p) when node_allocator grants g more allocations and then
\* throws.  The result says whether the exception left the call (thrown), in
\* which case the handler has run erase_since(top).
RECURSIVE copy_from(_, _, _, _)
RECURSIVE copy_from_left(_, _, _, _, _)
copy_from_catch(r, top) ==
    [tr |-> erase_since(r.tr, top), top |-> NIL, thrown |-> TRUE, g |-> r.g]

\* the while loop: x is the next node of the left spine, p the clone of its
\* parent; top is the clone the enclosing call returns
copy_from_left(tr, x, p, top, g) ==
    IF x = NIL THEN [tr |-> tr, top |-> top, thrown |-> FALSE, g |-> g]
    ELSE IF g = 0 THEN [tr |-> tr, top |-> top, thrown |-> TRUE, g |-> 0]
    ELSE LET link(c) == [tr |-> [c.tr EXCEPT !.left[p] = c.np, !.parent[c.np] = p],
                         np |-> c.np]
             right(c) ==
                 IF tr.right[x] # NIL
                 THEN LET set(r) ==
                              IF r.thrown THEN r
                              ELSE [r EXCEPT !.tr = [r.tr EXCEPT !.right[c.np] = r.top],
                                             !.top = c.np]
                      IN set(copy_from(c.tr, tr.right[x], c.np, g - 1))
                 ELSE [tr |-> c.tr, top |-> c.np, thrown |-> FALSE, g |-> g - 1]
             next(r) == IF r.thrown THEN [r EXCEPT !.top = top]
                        ELSE copy_from_left(r.tr, tr.left[x], r.top, top, r.g)
         IN next(right(link(clone_node(tr, x))))

copy_from(tr, x, p, g) ==
    IF g = 0 THEN [tr |-> tr, top |-> NIL, thrown |-> TRUE, g |-> 0]
    ELSE LET parent(c) == [tr |-> [c.tr EXCEPT !.parent[c.np] = p], np |-> c.np]
             right(c) ==
                 IF tr.right[x] # NIL
                 THEN LET set(r) ==
                              IF r.thrown THEN [r EXCEPT !.top = c.np]
                              ELSE [r EXCEPT !.tr = [r.tr EXCEPT !.right[c.np] = r.top],
                                             !.top = c.np]
                      IN set(copy_from(c.tr, tr.right[x], c.np, g - 1))
                 ELSE [tr |-> c.tr, top |-> c.np, thrown |-> FALSE, g |-> g - 1]
             left(r) == IF r.thrown THEN r
                        ELSE copy_from_left(r.tr, tr.left[x], r.top, r.top, r.g)
             catch(r) == IF r.thrown THEN copy_from_catch(r, r.top) ELSE r
         IN catch(left(right(parent(clone_node(tr, x)))))

\* the body shared by the copy constructor and copy assignment, *this being
\* empty: an exception leaves through it with the members as they are
copy_members(tr, g) ==
    LET set(r) ==
            IF r.thrown THEN [tr |-> r.tr, thrown |-> TRUE]
            ELSE LET s1(a) == [a EXCEPT !.parent[a.header_] = r.top]
                     s2(a) == [a EXCEPT !.left[a.header_] = rb_tree_min(a, root(a))]
                     s3(a) == [a EXCEPT !.right[a.header_] = rb_tree_max(a, root(a))]
                     s4(a) == [a EXCEPT !.node_count_ = a.rhs.node_count_]
                 IN [tr |-> s4(s3(s2(s1(r.tr)))), thrown |-> FALSE]
    IN IF tr.rhs.node_count_ # 0
       THEN set(copy_from(tr, tr.parent[tr.rhs.header_], tr.header_, g))
       ELSE [tr |-> [tr EXCEPT !.node_count_ = tr.rhs.node_count_], thrown |-> FALSE]

\* an object whose constructor was left by an exception does not exist, and
\* no destructor runs for it
abandon(r) ==
    IF r.thrown
    THEN [r EXCEPT !.tr = [r.tr EXCEPT !.header_ = NIL, !.node_count_ = 0]]
    ELSE r

\* rb_tree(const rb_tree& rhs)
copy_construct(tr, g) == abandon(copy_members(rb_tree_init_in(tr), g))

\* operator=(const rb_tree& rhs), this # &rhs
copy_assign(tr, g) == copy_members(clear(tr), g)

\* mutant of reset_rhs: rhs gets no header of its own, only a zero count
reset_rhs_keeps_header(tr) == [tr EXCEPT !.rhs.node_count_ = 0]

\* rhs.reset()
reset_rhs(tr) == Swap(rb_tree_init_in(Swap(tr)))

\* rb_tree(rb_tree&& rhs)
move_construct(tr) ==
    LET init(a) == [a EXCEPT !.header_ = a.rhs.header_,
                             !.node_count_ = a.rhs.node_count_]
    IN reset_rhs(init(tr))

\* operator=(rb_tree&& rhs), this # &rhs
move_assign(tr) ==
    LET s1(a) == [a EXCEPT !.header_ = a.rhs.header_]
        s2(a) == [a EXCEPT !.node_count_ = a.rhs.node_count_]
    IN reset_rhs(s2(s1(clear(tr))))

\* ~rb_tree(): afterwards the object does not exist
destroy(tr) ==
    LET gone(a) == [a EXCEPT !.header_ = NIL, !.node_count_ = 0]
    IN gone(clear(tr))

\* ------------------------------------------------------------ state machine
\* t   : the tree object (header_, node_count_) and the node heap it owns
\* cnt : per key, payloads constructed minus payloads destroyed so far
\* multi : a duplicate-accepting insert has been called on this tree
Account(old, new) ==
    [k \in AllKeys |->
        cnt[k] + Cardinality({a \in new.alloc : new.value[a] = k})
               - Cardinality({a \in old.alloc : old.value[a] = k})]

\* begin(), end() and every element
Positions(tr) == tr.alloc \cup {tr.header_}

\* Spec stops growing a tree at MaxPlain nodes
PlainRoom(tr) == tr.node_count_ < MaxPlain

Init ==
    /\ t = rb_tree_init
    /\ cnt = [k \in AllKeys |-> 0]
    /\ multi = FALSE

InsertUnique ==
    \E k \in Keys :
        /\ PlainRoom(t)
        /\ t' = insert_unique(t, k).tr
        /\ cnt' = Account(t, t')
        /\ UNCHANGED multi

InsertMulti ==
    \E k \in Keys :
        /\ PlainRoom(t)
        /\ t' = insert_multi(t, k).tr
        /\ cnt' = Account(t, t')
        /\ multi' = TRUE

EmplaceUnique ==
    \E k \in Keys :
        /\ PlainRoom(t)
        /\ t' = emplace_unique(t, k).tr
        /\ cnt' = Account(t, t')
        /\ UNCHANGED multi

EmplaceMulti ==
    \E k \in Keys :
        /\ PlainRoom(t)
        /\ t' = emplace_multi(t, k).tr
        /\ cnt' = Account(t, t')
        /\ multi' = TRUE

InsertUniqueHint ==
    \E k \in Keys, hint \in Positions(t) :
        /\ PlainRoom(t)
        /\ t' = emplace_unique_use_hint(t, hint, k).tr
        /\ cnt' = Account(t, t')
        /\ UNCHANGED multi

InsertMultiHint ==
    \E k \in Keys, hint \in Positions(t) :
        /\ PlainRoom(t)
        /\ t' = emplace_multi_use_hint(t, hint, k).tr
        /\ cnt' = Account(t, t')
        /\ multi' = TRUE

Erase ==
    \E pos \in t.alloc :
        /\ t' = erase(t, pos).tr
        /\ cnt' = Account(t, t')
        /\ UNCHANGED multi

EraseUnique ==
    \E k \in Keys :
        /\ t' = erase_unique(t, k).tr
        /\ cnt' = Account(t, t')
        /\ UNCHANGED multi

EraseMulti ==
    \E k \in Keys :
        /\ t' = erase_multi(t, k).tr
        /\ cnt' = Account(t, t')
        /\ UNCHANGED multi

Clear ==
    /\ t' = clear(t)
    /\ cnt' = Account(t, t')
    /\ UNCHANGED multi

Next ==
    \/ InsertUnique
    \/ InsertMulti
    \/ EmplaceUnique
    \/ EmplaceMulti
    \/ InsertUniqueHint
    \/ InsertMultiHint
    \/ Erase
    \/ EraseUnique
    \/ EraseMulti
    \/ Clear

Spec == Init /\ [][Next]_vars

\* ------------------------------------------------- observation operators
\* the nodes met by walking from begin() to end() with the iterator's inc()
RECURSIVE Walk(_, _, _)
Walk(tr, n, fuel) ==
    IF n = end(tr) \/ fuel = 0 THEN <<>>
    ELSE <<n>> \o Walk(tr, inc(tr, n), fuel - 1)

InOrderNodes(tr) == Walk(tr, begin(tr), MaxNodes + 2)

KeysOf(tr, seq) == [i \in DOMAIN seq |-> tr.value[seq[i]]]

InOrderKeys(tr) == KeysOf(tr, InOrderNodes(tr))

TypeOK ==
    /\ t.alloc \subseteq Nodes
    /\ t.node_count_ \in 0..MaxNodes
    /\ \A k \in AllKeys : cnt[k] \in 0..MaxNodes
    /\ multi \in BOOLEAN

\* ------------------------------------------- the heap up to its addresses
\* The code never looks at an address other than to compare two of them, so
\* two heaps that differ only in which address holds which node behave the
\* same.  SpecCanon keeps one heap of each such class: after every call the
\* nodes are renamed so that the k-th node of the tree, left to right, has
\* address k.  This lets trees of up to MaxNodes nodes be explored.
RECURSIVE Flatten(_, _)
Flatten(tr, n) ==
    IF n = NIL THEN <<>>
    ELSE Flatten(tr, tr.left[n]) \o <<n>> \o Flatten(tr, tr.right[n])

RECURSIVE Ascending(_)
Ascending(S) ==
    IF S = {} THEN <<>>
    ELSE LET m == CHOOSE a \in S : \A b \in S : a <= b
         IN <<m>> \o Ascending(S \ {m})

\* the allocated nodes: those of the tree left to right, then any other
RootOf(tr, h) == IF h = NIL THEN NIL ELSE tr.parent[h]

Census(tr) ==
    LET linked(f) == f \o Ascending(tr.alloc \ {f[i] : i \in DOMAIN f})
    IN linked(Flatten(tr, RootOf(tr, tr.header_))
              \o Flatten(tr, RootOf(tr, tr.rhs.header_)))

Renamed(tr, seq) ==
    LET to(a) == IF a \notin Nodes THEN a
                 ELSE CHOOSE i \in DOMAIN seq : seq[i] = a
        from(a) == IF a \notin Nodes THEN a ELSE seq[a]
        live(a) == a \notin Nodes \/ a \in DOMAIN seq
    IN [header_     |-> tr.header_,
        node_count_ |-> tr.node_count_,
        rhs         |-> tr.rhs,
        alloc       |-> DOMAIN seq,
        halloc      |-> tr.halloc,
        parent      |-> [a \in Addrs |-> IF live(a) THEN to(tr.parent[from(a)]) ELSE NIL],
        left        |-> [a \in Addrs |-> IF live(a) THEN to(tr.left[from(a)]) ELSE NIL],
        right       |-> [a \in Addrs |-> IF live(a) THEN to(tr.right[from(a)]) ELSE NIL],
        color       |-> [a \in Addrs |-> IF live(a) THEN tr.color[from(a)] ELSE rb_tree_red],
        value       |-> [a \in Addrs |-> IF live(a) THEN tr.value[from(a)] ELSE 0]]

Normalize(tr) == Renamed(tr, Census(tr))

\* the bounded heap has room for one more node
Room(tr) == tr.node_count_ < MaxNodes

CanonInsertUnique ==
    \E k \in Keys :
        /\ Room(t)
        /\ t' = Normalize(insert_unique(t, k).tr)
        /\ cnt' = Account(t, insert_unique(t, k).tr)
        /\ UNCHANGED multi

CanonInsertMulti ==
    \E k \in Keys :
        /\ Room(t)
        /\ t' = Normalize(insert_multi(t, k).tr)
        /\ cnt' = Account(t, insert_multi(t, k).tr)
        /\ multi' = TRUE

CanonEmplaceUnique ==
    \E k \in Keys :
        /\ Room(t)
        /\ t' = Normalize(emplace_unique(t, k).tr)
        /\ cnt' = Account(t, emplace_unique(t, k).tr)
        /\ UNCHANGED multi

CanonEmplaceMulti ==
    \E k \in Keys :
        /\ Room(t)
        /\ t' = Normalize(emplace_multi(t, k).tr)
        /\ cnt' = Account(t, emplace_multi(t, k).tr)
        /\ multi' = TRUE

CanonInsertUniqueHint ==
    \E k \in Keys, hint \in Positions(t) :
        /\ Room(t)
        /\ t' = Normalize(emplace_unique_use_hint(t, hint, k).tr)
        /\ cnt' = Account(t, emplace_unique_use_hint(t, hint, k).tr)
        /\ UNCHANGED multi

CanonInsertMultiHint ==
    \E k \in Keys, hint \in Positions(t) :
        /\ Room(t)
        /\ t' = Normalize(emplace_multi_use_hint(t, hint, k).tr)
        /\ cnt' = Account(t, emplace_multi_use_hint(t, hint, k).tr)
        /\ multi' = TRUE

CanonErase ==
    \E pos \in t.alloc :
        /\ t' = Normalize(erase(t, pos).tr)
        /\ cnt' = Account(t, erase(t, pos).tr)
        /\ UNCHANGED multi

CanonEraseUnique ==
    \E k \in Keys :
        /\ t' = Normalize(erase_unique(t, k).tr)
        /\ cnt' = Account(t, erase_unique(t, k).tr)
        /\ UNCHANGED multi

CanonEraseMulti ==
    \E k \in Keys :
        /\ t' = Normalize(erase_multi(t, k).tr)
        /\ cnt' = Account(t, erase_multi(t, k).tr)
        /\ UNCHANGED multi

CanonClear ==
    /\ t' = Normalize(clear(t))
    /\ cnt' = Account(t, clear(t))
    /\ UNCHANGED multi

NextCanon ==
    \/ CanonInsertUnique
    \/ CanonInsertMulti
    \/ CanonEmplaceUnique
    \/ CanonEmplaceMulti
    \/ CanonInsertUniqueHint
    \/ CanonInsertMultiHint
    \/ CanonErase
    \/ CanonEraseUnique
    \/ CanonEraseMulti
    \/ CanonClear

SpecCanon == Init /\ [][NextCanon]_vars

\* ------------------------------------------------- sets of distinct keys
\* SpecUnique builds trees by insert_unique alone, from as many distinct keys
\* as the heap has room for, and takes them apart by erase; the heap is kept
\* up to its addresses as in SpecCanon.
UniqueInsert ==
    \E k \in UniqueKeys :
        /\ Room(t)
        /\ t' = Normalize(insert_unique(t, k).tr)
        /\ cnt' = Account(t, insert_unique(t, k).tr)
        /\ UNCHANGED multi

UniqueErase ==
    \E pos \in t.alloc :
        /\ t' = Normalize(erase(t, pos).tr)
        /\ cnt' = Account(t, erase(t, pos).tr)
        /\ UNCHANGED multi

UniqueEraseKey ==
    \E k \in UniqueKeys :
        /\ t' = Normalize(erase_unique(t, k).tr)
        /\ cnt' = Account(t, erase_unique(t, k).tr)
        /\ UNCHANGED multi

NextUnique ==
    \/ UniqueInsert
    \/ UniqueErase
    \/ UniqueEraseKey

SpecUnique == Init /\ [][NextUnique]_vars

\* ------------------------------------------------------------ deep trees
\* The fixups look at links and colours only, never at a key.  SpecDeep
\* stores one key value, so that trees of up to MaxDeep nodes can be
\* explored: with equal keys emplace_multi_use_hint links the new node just
\* before the hinted position, or last.  The heap is kept up to its
\* addresses as in SpecCanon.
DeepKey == 1

DeepRoom(tr) == tr.node_count_ < MaxDeep

DeepInsertMultiHint ==
    \E hint \in Positions(t) :
        /\ DeepRoom(t)
        /\ t' = Normalize(emplace_multi_use_hint(t, hint, DeepKey).tr)
        /\ cnt' = Account(t, emplace_multi_use_hint(t, hint, DeepKey).tr)
        /\ multi' = TRUE

DeepErase ==
    \E pos \in t.alloc :
        /\ t' = Normalize(erase(t, pos).tr)
        /\ cnt' = Account(t, erase(t, pos).tr)
        /\ UNCHANGED multi

NextDeep ==
    \/ DeepInsertMultiHint
    \/ DeepErase

SpecDeep == Init /\ [][NextDeep]_vars

\* ---------------------------------------------------- two tree objects
\* SpecObjects has two tree objects in one memory.  Every call is made on
\* either of them (swap exchanges the roles of *this and rhs); copy and move
\* take the other one as their argument.  Each tree holds up to MaxObjNodes
\* nodes, so that a tree and its copy fit the heap.
MaxObjNodes == MaxNodes \div 2
ObjKeys == 1..(MaxKey - 1)

On(tr, swap) == IF swap THEN Swap(tr) ELSE tr

Alive(tr) == tr.header_ # NIL
RhsAlive(tr) == tr.rhs.header_ # NIL
HeaderRoom(tr) == Headers \ tr.halloc # {}
ObjRoom(tr) == Alive(tr) /\ tr.node_count_ < MaxObjNodes

\* the nodes linked below the root of *this
TreeNodes(tr) ==
    LET set(f) == {f[i] : i \in DOMAIN f}
    IN set(Flatten(tr, RootOf(tr, tr.header_)))

\* the state after a call on the object chosen by swap has left memory as new
Becomes(new, swap) ==
    /\ t' = Normalize(On(new, swap))
    /\ cnt' = Account(t, new)

ObjConstruct ==
    \E swap \in BOOLEAN :
        /\ ~Alive(On(t, swap)) /\ HeaderRoom(t)
        /\ Becomes(rb_tree_init_in(On(t, swap)), swap)
        /\ UNCHANGED multi

ObjCopyConstruct ==
    \E swap \in BOOLEAN :
        /\ ~Alive(On(t, swap)) /\ RhsAlive(On(t, swap)) /\ HeaderRoom(t)
        /\ Becomes(copy_construct(On(t, swap), MaxNodes).tr, swap)
        /\ UNCHANGED multi

ObjCopyAssign ==
    \E swap \in BOOLEAN :
        /\ Alive(On(t, swap)) /\ RhsAlive(On(t, swap))
        /\ Becomes(copy_assign(On(t, swap), MaxNodes).tr, swap)
        /\ UNCHANGED multi

ObjMoveConstruct ==
    \E swap \in BOOLEAN :
        /\ ~Alive(On(t, swap)) /\ RhsAlive(On(t, swap)) /\ HeaderRoom(t)
        /\ Becomes(move_construct(On(t, swap)), swap)
        /\ UNCHANGED multi

ObjMoveAssign ==
    \E swap \in BOOLEAN :
        /\ Alive(On(t, swap)) /\ RhsAlive(On(t, swap)) /\ HeaderRoom(t)
        /\ Becomes(move_assign(On(t, swap)), swap)
        /\ UNCHANGED multi

ObjDestroy ==
    \E swap \in BOOLEAN :
        /\ Alive(On(t, swap))
        /\ Becomes(destroy(On(t, swap)), swap)
        /\ UNCHANGED multi

ObjInsertUnique ==
    \E swap \in BOOLEAN, k \in ObjKeys :
        /\ ObjRoom(On(t, swap))
        /\ Becomes(insert_unique(On(t, swap), k).tr, swap)
        /\ UNCHANGED multi

ObjInsertMulti ==
    \E swap \in BOOLEAN, k \in ObjKeys :
        /\ ObjRoom(On(t, swap))
        /\ Becomes(insert_multi(On(t, swap), k).tr, swap)
        /\ multi' = TRUE

ObjErase ==
    \E swap \in BOOLEAN :
        \E pos \in TreeNodes(On(t, swap)) :
            /\ Becomes(erase(On(t, swap), pos).tr, swap)
            /\ UNCHANGED multi

ObjClear ==
    \E swap \in BOOLEAN :
        /\ Alive(On(t, swap))
        /\ Becomes(clear(On(t, swap)), swap)
        /\ UNCHANGED multi

NextObjects ==
    \/ ObjConstruct
    \/ ObjCopyConstruct
    \/ ObjCopyAssign
    \/ ObjMoveConstruct
    \/ ObjMoveAssign
    \/ ObjDestroy
    \/ ObjInsertUnique
    \/ ObjInsertMulti
    \/ ObjErase
    \/ ObjClear

SpecObjects == Init /\ [][NextObjects]_vars

\* keys a and b are equivalent under the comparator
Equiv(a, b) == ~key_comp_(a, b) /\ ~key_comp_(b, a)

\* some element with a key equivalent to k is stored
Stored(tr, k) == \E n \in tr.alloc : Equiv(tr.value[n], k)

\* no red node has a red child
NoRedRed(tr) ==
    \A n \in tr.alloc :
        rb_tree_is_red(tr, n) => not_red(tr, tr.left[n]) /\ not_red(tr, tr.right[n])

\* black nodes on every downward path from n to a null position; -1 when two
\* such paths disagree
RECURSIVE BlackCount(_, _)
BlackMerge(l, r, own) == IF l < 0 \/ r < 0 \/ l # r THEN -1 ELSE l + own

BlackCount(tr, n) ==
    IF n = NIL THEN 0
    ELSE BlackMerge(BlackCount(tr, tr.left[n]), BlackCount(tr, tr.right[n]),
                    IF tr.color[n] = rb_tree_black THEN 1 ELSE 0)

RedBlack(tr) == NoRedRed(tr) /\ \A n \in tr.alloc : BlackCount(tr, n) >= 0

NonDecreasing(ks) == \A i \in 1..(Len(ks) - 1) : ~key_comp_(ks[i + 1], ks[i])
Increasing(ks) == \A i \in 1..(Len(ks) - 1) : key_comp_(ks[i], ks[i + 1])

\* ----------------------------------------------------------------- claims

\* C1: after any sequence of inserts (unique, multi, hinted), erases and
\* clear on an initially empty tree, no red node has a red child and from
\* every node all downward paths to a null position hold the same number of
\* black nodes.
C1_RedBlackInvariant == RedBlack(t)

\* a three-node tree with no red node: only an erase (of the red fourth node)
\* leaves it
C1_Witness ==
    /\ t.node_count_ = 3
    /\ \A n \in t.alloc : t.color[n] = rb_tree_black

\* C2: in every reachable state the walk from begin() to end() by increment
\* meets every element once, keys never decreasing (so equivalent keys are
\* consecutive); while only unique inserts have been used, strictly increasing.
C2_WalkSorted ==
    /\ Len(InOrderNodes(t)) = t.node_count_
    /\ NonDecreasing(InOrderKeys(t))
    /\ ~multi => Increasing(InOrderKeys(t))

\* a full tree holding a run of three equivalent keys between others
C2_Witness ==
    /\ t.node_count_ = MaxNodes
    /\ \E i \in 1..(MaxNodes - 2) :
           /\ InOrderKeys(t)[i] = InOrderKeys(t)[i + 1]
           /\ InOrderKeys(t)[i + 1] = InOrderKeys(t)[i + 2]
    /\ InOrderKeys(t)[1] # InOrderKeys(t)[MaxNodes]

\* C3: for every key k, if k was inserted and not erased since, find(k) is a
\* position other than end() with a key equivalent to k; if no equivalent key
\* is stored, find(k) is end().
C3_Find ==
    \A k \in Keys :
        /\ cnt[k] > 0 => find(t, k) # end(t) /\ Equiv(get_key(t, find(t, k)), k)
        /\ ~Stored(t, k) => find(t, k) = end(t)

\* a tree with a stored key found below the root and a key, smaller than the
\* largest one, that is absent
C3_Witness ==
    \E k, a \in Keys :
        /\ cnt[k] > 0 /\ find(t, k) # end(t) /\ find(t, k) # root(t)
        /\ ~Stored(t, a) /\ a < get_key(t, rightmost(t)) /\ find(t, a) = end(t)

\* the node sequence seq with node n put after its first p members
InsertAt(seq, p, n) == SubSeq(seq, 1, p) \o <<n>> \o SubSeq(seq, p + 1, Len(seq))

\* the node sequence seq without node n
Without(seq, n) == SelectSeq(seq, LAMBDA e : e # n)

\* the nodes of tr holding a key equivalent to k
Holding(tr, k) == {n \in tr.alloc : Equiv(tr.value[n], k)}

\* every node of old is a node of new, with the payload it had
KeepsNodes(old, new) ==
    /\ old.alloc \subseteq new.alloc
    /\ \A n \in old.alloc : new.value[n] = old.value[n]

\* no two elements have equivalent keys
NoDuplicates(tr) ==
    \A a, b \in tr.alloc : a # b => ~Equiv(tr.value[a], tr.value[b])

\* C4: insert_unique(v) returns inserted = true exactly when no stored key is
\* equivalent to v; then size grows by one and exactly one element, with key
\* v, is added; otherwise it returns false and the tree is unchanged.
C4_Holds(tr, k, r) ==
    /\ r.second <=> ~Stored(tr, k)
    /\ r.second =>
          /\ r.tr.node_count_ = tr.node_count_ + 1
          /\ KeepsNodes(tr, r.tr)
          /\ r.tr.alloc \ tr.alloc = {r.first}
          /\ r.first \notin tr.alloc
          /\ r.tr.value[r.first] = k
          /\ Without(InOrderNodes(r.tr), r.first) = InOrderNodes(tr)
          /\ Len(InOrderNodes(r.tr)) = r.tr.node_count_
    /\ ~r.second => r.tr = tr

C4_InsertUnique ==
    \A k \in Keys :
        Room(t) => /\ C4_Holds(t, k, insert_unique(t, k))
                   /\ C4_Holds(t, k, emplace_unique(t, k))

\* a tree with duplicates on which one unique insert is refused and another
\* one goes through
C4_Witness ==
    /\ Room(t)
    /\ ~NoDuplicates(t)
    /\ \E k, j \in Keys :
          /\ Stored(t, k) /\ ~insert_unique(t, k).second
          /\ ~Stored(t, j) /\ insert_unique(t, j).second
          /\ insert_unique(t, j).tr.node_count_ = t.node_count_ + 1

\* C5: when a unique insertion (insert_unique, emplace_unique or a hinted
\* form) finds an equivalent key stored, the position it returns designates
\* that stored element: the key there is equivalent to the key passed in.
C5_ReturnedKey(tr, k, pos) == pos # end(tr) /\ Equiv(get_key(tr, pos), k)

C5_ReturnsStoredElement ==
    \A k \in Keys :
        Room(t) /\ Stored(t, k) =>
            /\ C5_ReturnedKey(t, k, insert_unique(t, k).first)
            /\ C5_ReturnedKey(t, k, emplace_unique(t, k).first)
            /\ \A hint \in Positions(t) :
                   C5_ReturnedKey(t, k, emplace_unique_use_hint(t, hint, k).it)

\* C6: erase_multi(k) removes every element with a key equivalent to k and no
\* other, and returns how many; afterwards count_multi(k) = 0 and size has
\* dropped by that number.  On a tree without duplicates erase_unique(k)
\* returns 1 and removes the element when k is stored, and returns 0 and
\* leaves the tree unchanged when it is not.
C6_MultiHolds(tr, k, r) ==
    /\ r.tr.alloc = tr.alloc \ Holding(tr, k)
    /\ r.n = Cardinality(Holding(tr, k))
    /\ count_multi(r.tr, k) = 0
    /\ r.tr.node_count_ = tr.node_count_ - r.n
    /\ KeepsNodes(r.tr, tr)
    /\ InOrderNodes(r.tr) = SelectSeq(InOrderNodes(tr), LAMBDA e : e \notin Holding(tr, k))

C6_UniqueHolds(tr, k, r) ==
    IF Stored(tr, k)
    THEN /\ r.n = 1
         /\ r.tr.alloc = tr.alloc \ Holding(tr, k)
         /\ r.tr.node_count_ = tr.node_count_ - 1
         /\ KeepsNodes(r.tr, tr)
         /\ InOrderNodes(r.tr) = SelectSeq(InOrderNodes(tr), LAMBDA e : e \notin Holding(tr, k))
    ELSE r.n = 0 /\ r.tr = tr

C6_EraseByKey ==
    \A k \in Keys :
        /\ C6_MultiHolds(t, k, erase_multi(t, k))
        /\ NoDuplicates(t) => C6_UniqueHolds(t, k, erase_unique(t, k))

\* erase_multi takes a run of two or more equivalent keys out of the middle
\* of a tree, and erase_unique takes a key out of a tree without duplicates
C6_Witness ==
    \/ \E k \in Keys :
          /\ erase_multi(t, k).n >= 2
          /\ erase_multi(t, k).tr.node_count_ >= 2
          /\ get_key(t, leftmost(t)) < k /\ k < get_key(t, rightmost(t))
    \/ /\ NoDuplicates(t) /\ t.node_count_ >= 3
       /\ \E k \in Keys : erase_unique(t, k).n = 1

\* C7: erase(pos) destroys exactly the node pos designates, also when it has
\* two children: size drops by one and every other element keeps its node and
\* payload, in the same order; no insert moves, copies or destroys an
\* existing node.
C7_EraseHolds(tr, pos, r) ==
    /\ r.tr.alloc = tr.alloc \ {pos}
    /\ r.tr.node_count_ = tr.node_count_ - 1
    /\ KeepsNodes(r.tr, tr)
    /\ InOrderNodes(r.tr) = Without(InOrderNodes(tr), pos)

C7_InsertHolds(tr, new) ==
    /\ KeepsNodes(tr, new)
    /\ SelectSeq(InOrderNodes(new), LAMBDA e : e \in tr.alloc) = InOrderNodes(tr)

C7_NodeIdentity ==
    /\ \A pos \in t.alloc : C7_EraseHolds(t, pos, erase(t, pos))
    /\ Room(t) =>
          \A k \in Keys :
              /\ C7_InsertHolds(t, insert_unique(t, k).tr)
              /\ C7_InsertHolds(t, insert_multi(t, k).tr)
              /\ C7_InsertHolds(t, emplace_unique(t, k).tr)
              /\ C7_InsertHolds(t, emplace_multi(t, k).tr)
              /\ \A hint \in Positions(t) :
                     /\ C7_InsertHolds(t, emplace_unique_use_hint(t, hint, k).tr)
                     /\ C7_InsertHolds(t, emplace_multi_use_hint(t, hint, k).tr)

\* erase of a node with two children whose successor is not its right child
C7_Witness ==
    \E pos \in t.alloc :
        /\ t.left[pos] # NIL /\ t.right[pos] # NIL
        /\ rb_tree_next(t, pos) # t.right[pos]
        /\ erase(t, pos).tr.alloc = t.alloc \ {pos}

\* C8: insert_multi(v) without a hint always adds one element and places it
\* right after the last stored element with a key equivalent to v (after the
\* last one not greater than v), so equivalent keys keep insertion order.
NotGreater(tr, k) ==
    Cardinality({i \in DOMAIN InOrderNodes(tr) : ~key_comp_(k, InOrderKeys(tr)[i])})

C8_Holds(tr, k, r) ==
    /\ r.tr.node_count_ = tr.node_count_ + 1
    /\ r.it \notin tr.alloc
    /\ r.tr.alloc = tr.alloc \cup {r.it}
    /\ r.tr.value[r.it] = k
    /\ InOrderNodes(r.tr) = InsertAt(InOrderNodes(tr), NotGreater(tr, k), r.it)

C8_InsertMulti ==
    \A k \in Keys :
        Room(t) => /\ C8_Holds(t, k, insert_multi(t, k))
                   /\ C8_Holds(t, k, emplace_multi(t, k))

\* insert_multi of a key stored twice already, with a greater key behind it
C8_Witness ==
    /\ Room(t)
    /\ \E k \in Keys :
          /\ Cardinality(Holding(t, k)) = 2
          /\ k < get_key(t, rightmost(t))
          /\ insert_multi(t, k).tr.node_count_ = t.node_count_ + 1

\* C9: for every tree state, every hint (begin(), end() or any element) and
\* every value, the hinted insert_unique leaves the key sequence that
\* insert_unique leaves and the hinted insert_multi the key sequence that
\* insert_multi leaves; the red-black invariants hold afterwards.
C9_Same(hinted, plain) ==
    /\ InOrderKeys(hinted) = InOrderKeys(plain)
    /\ hinted.node_count_ = plain.node_count_
    /\ RedBlack(hinted)

C9_HintIsOnlyAHint ==
    Room(t) =>
        \A k \in Keys, hint \in Positions(t) :
            /\ C9_Same(emplace_unique_use_hint(t, hint, k).tr, insert_unique(t, k).tr)
            /\ C9_Same(emplace_multi_use_hint(t, hint, k).tr, insert_multi(t, k).tr)

\* a hint that is wrong: an inner element, with the key belonging at the
\* other end of a three-node tree
C9_Witness ==
    /\ Room(t) /\ t.node_count_ >= 3
    /\ \E k \in Keys, hint \in t.alloc :
          /\ hint # begin(t)
          /\ key_comp_(k, get_key(t, leftmost(t)))
          /\ InOrderKeys(emplace_multi_use_hint(t, hint, k).tr)[1] = k

\* C10: count_multi(k), the number of positions in equal_range_multi(k),
\* equals the number of elements with key k inserted minus the number erased.
C10_CountMulti == \A k \in Keys : count_multi(t, k) = cnt[k]

\* duplicates of one key next to other keys
C10_Witness ==
    /\ multi
    /\ \E k, j \in Keys : k # j /\ cnt[k] = 2 /\ count_multi(t, k) = 2 /\ cnt[j] = 1

\* the first position of the walk whose key satisfies Test, end() when none
FirstPosition(tr, Test(_)) ==
    LET hits == {i \in DOMAIN InOrderNodes(tr) : Test(InOrderKeys(tr)[i])}
    IN IF hits = {} THEN end(tr)
       ELSE InOrderNodes(tr)[CHOOSE i \in hits : \A j \in hits : i <= j]

\* C11: for every tree state and every key k, lower_bound(k) is the first
\* position in iteration order whose key is not less than k and
\* upper_bound(k) the first whose key is greater than k, end() when there is
\* none; the two coincide exactly when no stored key is equivalent to k.
C11_Bounds ==
    \A k \in Keys :
        /\ lower_bound(t, k) = FirstPosition(t, LAMBDA e : ~key_comp_(e, k))
        /\ upper_bound(t, k) = FirstPosition(t, LAMBDA e : key_comp_(k, e))
        /\ (lower_bound(t, k) = upper_bound(t, k)) <=> ~Stored(t, k)

\* one key stored twice with its bounds apart and a greater element behind,
\* one absent key whose bounds meet on an element, one key with no greater
\* element
C11_Witness ==
    \E k, a, m \in Keys :
        /\ Cardinality(Holding(t, k)) = 2
        /\ lower_bound(t, k) # upper_bound(t, k) /\ upper_bound(t, k) # end(t)
        /\ ~Stored(t, a) /\ lower_bound(t, a) = upper_bound(t, a)
        /\ lower_bound(t, a) # end(t)
        /\ Stored(t, m) /\ upper_bound(t, m) = end(t)

\* tr cannot be told from a freshly constructed tree
Fresh(tr) ==
    /\ tr.node_count_ = 0
    /\ begin(tr) = end(tr)
    /\ root(tr) = NIL
    /\ leftmost(tr) = tr.header_
    /\ rightmost(tr) = tr.header_
    /\ tr.alloc = {}
    /\ tr = rb_tree_init

\* C12: after unique inserts of distinct keys in any order (and erases in any
\* order) the walk yields exactly the keys inserted and not erased, in
\* ascending order; once every key is erased again the tree is
\* indistinguishable from a freshly constructed one: size 0, begin() = end(),
\* null root, leftmost and rightmost designating the header.
C12_RoundTrip ==
    /\ InOrderKeys(t) = Ascending({k \in AllKeys : cnt[k] > 0})
    /\ (\A k \in AllKeys : cnt[k] = 0) => Fresh(t)
    /\ t.node_count_ = 1 => \A pos \in t.alloc : Fresh(erase(t, pos).tr)

\* a tree holding as many distinct keys as the heap has room for, whose root
\* is not its middle key
C12_Witness ==
    /\ ~multi
    /\ t.node_count_ = MaxNodes
    /\ \A k \in UniqueKeys : cnt[k] = 1
    /\ get_key(t, root(t)) # InOrderKeys(t)[(MaxNodes + 1) \div 2]

\* shape, colours and payloads of the subtree below n
RECURSIVE Shape(_, _)
Shape(tr, n) ==
    IF n = NIL THEN <<>>
    ELSE <<Shape(tr, tr.left[n]), tr.color[n], tr.value[n], Shape(tr, tr.right[n])>>

\* everything that belongs to *this: its members, its header and its nodes
\* with their links, colours and payloads
Snapshot(tr) ==
    IF ~Alive(tr) THEN <<>>
    ELSE <<tr.header_, tr.node_count_, InOrderNodes(tr),
           [a \in TreeNodes(tr) \cup {tr.header_} |->
               <<tr.parent[a], tr.left[a], tr.right[a], tr.color[a], tr.value[a]>>]>>

\* new is a copy of the argument rhs of old, made by a call on old
IsCopy(old, new) ==
    /\ Alive(new)
    /\ new.node_count_ = old.rhs.node_count_
    /\ InOrderKeys(new) = InOrderKeys(Swap(old))
    /\ Len(InOrderNodes(new)) = new.node_count_
    /\ Shape(new, root(new)) = Shape(old, RootOf(old, old.rhs.header_))
    /\ TreeNodes(new) \cap TreeNodes(Swap(old)) = {}
    /\ new.header_ # new.rhs.header_
    /\ new.alloc = TreeNodes(new) \cup TreeNodes(Swap(new))
    /\ Snapshot(Swap(new)) = Snapshot(Swap(old))

\* a call on *this that left memory as new has not touched rhs
RhsKept(old, new) == Snapshot(Swap(new)) = Snapshot(Swap(old))

C13_Frame(w) ==
    /\ TreeNodes(w) \cap TreeNodes(Swap(w)) = {}
    /\ w.header_ # w.rhs.header_
    /\ RhsKept(w, clear(w))
    /\ \A pos \in TreeNodes(w) : RhsKept(w, erase(w, pos).tr)
    /\ ObjRoom(w) =>
           \A k \in ObjKeys : /\ RhsKept(w, insert_unique(w, k).tr)
                               /\ RhsKept(w, insert_multi(w, k).tr)

C13_Holds(w) ==
    /\ ~Alive(w) /\ RhsAlive(w) /\ HeaderRoom(w) =>
           /\ ~copy_construct(w, MaxNodes).thrown
           /\ IsCopy(w, copy_construct(w, MaxNodes).tr)
    /\ Alive(w) /\ RhsAlive(w) =>
           /\ ~copy_assign(w, MaxNodes).thrown
           /\ IsCopy(w, copy_assign(w, MaxNodes).tr)
           /\ C13_Frame(w)

\* C13: copy construction and copy assignment produce a tree with the size,
\* in-order sequence, shape and colours of the source, built only from
\* nodes of its own, and leave the source as it was; in every state with two
\* trees, whatever calls they have been through, an insert, erase or clear
\* on either leaves the sequence, links and colours of the other unchanged.
C13_CopyIsIndependent == \A swap \in BOOLEAN : C13_Holds(On(t, swap))

\* a tree of MaxObjNodes nodes beside a tree with the same shape, colours and
\* payloads on other nodes, as a copy leaves them
C13_Witness ==
    /\ Alive(t) /\ RhsAlive(t)
    /\ t.node_count_ = MaxObjNodes
    /\ Shape(t, root(t)) = Shape(t, RootOf(t, t.rhs.header_))
    /\ TreeNodes(t) \cap TreeNodes(Swap(t)) = {}
    /\ \E n \in TreeNodes(t) : t.color[n] = rb_tree_red

\* tr is a valid empty tree on which calls behave as on a new one
BehavesAsNew(tr) ==
    /\ Alive(tr) /\ tr.header_ \in tr.halloc
    /\ tr.node_count_ = 0
    /\ begin(tr) = end(tr)
    /\ root(tr) = NIL
    /\ \A k \in ObjKeys :
           /\ find(tr, k) = end(tr)
           /\ erase_unique(tr, k).n = 0
           /\ insert_unique(tr, k).second
           /\ InOrderKeys(insert_unique(tr, k).tr) = <<k>>
           /\ find(insert_unique(tr, k).tr, k) = insert_unique(tr, k).first
           /\ InOrderKeys(insert_multi(insert_unique(tr, k).tr, k).tr) = <<k, k>>
           /\ erase_unique(insert_unique(tr, k).tr, k).n = 1
           /\ erase_unique(insert_unique(tr, k).tr, k).tr = tr
           /\ RhsKept(tr, insert_unique(tr, k).tr)

\* a move by a call on old, whose argument was old's rhs, left memory as new
Moved(old, new) ==
    /\ Alive(new)
    /\ new.node_count_ = old.rhs.node_count_
    /\ InOrderNodes(new) = InOrderNodes(Swap(old))
    /\ \A n \in TreeNodes(new) : new.value[n] = old.value[n]
    /\ Shape(new, root(new)) = Shape(old, RootOf(old, old.rhs.header_))
    /\ new.alloc = TreeNodes(new)
    /\ new.rhs.header_ # new.header_
    /\ new.rhs.header_ \notin old.halloc
    /\ BehavesAsNew(Swap(new))

C14_Holds(w) ==
    /\ ~Alive(w) /\ RhsAlive(w) /\ HeaderRoom(w) => Moved(w, move_construct(w))
    /\ Alive(w) /\ RhsAlive(w) /\ HeaderRoom(w) => Moved(w, move_assign(w))

\* C14: after move construction, or move assignment from a distinct tree,
\* the destination holds exactly the source's former elements (the same
\* nodes) in the same order, and the source is a valid empty tree (size 0,
\* begin() = end()) with a header of its own, on which inserts, finds and
\* erases behave as on a freshly constructed tree.
C14_Move == \A swap \in BOOLEAN : C14_Holds(On(t, swap))

\* a tree of MaxObjNodes nodes beside an empty tree whose header was
\* allocated after the first one, as a move leaves them
C14_Witness ==
    /\ Alive(t) /\ RhsAlive(t)
    /\ t.node_count_ = 0 /\ t.rhs.node_count_ = MaxObjNodes
    /\ t.rhs.header_ = HeaderAddr /\ t.header_ # HeaderAddr
    /\ HeaderRoom(t)
    /\ Moved(t, move_assign(t))

\* the call reported by r, made in memory tr, left tr exactly as it was
Untouched(tr, r) == r.thrown => r.tr = tr

\* C15: when node allocation or payload construction fails during
\* insert_unique, insert_multi or their emplace and hinted forms, the
\* exception reaches the caller and the tree's size, in-order sequence,
\* links and colours are those before the call, with no storage of the
\* failed call left allocated.
C15_FailedInsert ==
    Room(t) =>
        \A k \in Keys, how \in {"allocate", "construct"} :
            /\ Untouched(t, insert_unique_throws(t, k, how))
            /\ insert_unique_throws(t, k, how).thrown <=> ~Stored(t, k)
            /\ Untouched(t, insert_multi_throws(t, k, how))
            /\ insert_multi_throws(t, k, how).thrown
            /\ Untouched(t, emplace_unique_throws(t, k, how))
            /\ emplace_unique_throws(t, k, how).thrown
            /\ Untouched(t, emplace_multi_throws(t, k, how))
            /\ emplace_multi_throws(t, k, how).thrown
            /\ \A hint \in Positions(t) :
                   /\ Untouched(t, emplace_unique_use_hint_throws(t, hint, k, how))
                   /\ emplace_unique_use_hint_throws(t, hint, k, how).thrown
                   /\ Untouched(t, emplace_multi_use_hint_throws(t, hint, k, how))
                   /\ emplace_multi_use_hint_throws(t, hint, k, how).thrown

\* a tree of several nodes into which the insert of an absent key fails in
\* the payload's constructor
C15_Witness ==
    /\ Room(t) /\ t.node_count_ >= 3
    /\ \E k \in Keys :
          /\ ~Stored(t, k)
          /\ insert_unique_throws(t, k, "construct").thrown
          /\ insert_unique_throws(t, k, "construct").tr.alloc = t.alloc

\* copy construction by a call on w whose g-th node allocation throws: the
\* cloned nodes are released, no tree is to be seen and the source is as
\* it was
FailedCopyReleasesNodes(w, r) ==
    /\ r.thrown
    /\ ~Alive(r.tr)
    /\ r.tr.alloc = w.alloc
    /\ Snapshot(Swap(r.tr)) = Snapshot(Swap(w))

\* the header allocated for the copy is released as well
FailedCopyReleasesHeader(w, r) == r.tr.halloc = w.halloc

C16_Holds(w) ==
    ~Alive(w) /\ RhsAlive(w) /\ HeaderRoom(w) =>
        \A g \in 0..(w.rhs.node_count_ - 1) :
            /\ FailedCopyReleasesNodes(w, copy_construct(w, g))
            /\ FailedCopyReleasesHeader(w, copy_construct(w, g))

\* C16: when a node allocation fails at any point of a copy construction,
\* all storage allocated for the copy so far (the cloned nodes and the
\* copy's header) is released, the exception reaches the caller, no partly
\* built tree is observable and the source is unchanged.
C16_FailedCopyReleasesAll == \A swap \in BOOLEAN : C16_Holds(On(t, swap))

\* the destructor called on w gives back the nodes of w
DestroyFreesNodes(w) == TreeNodes(w) \cap destroy(w).alloc = {}

\* the destructor called on w gives back the header of w
DestroyFreesHeader(w) == w.header_ \notin destroy(w).halloc

C17_Holds(w) == Alive(w) => DestroyFreesNodes(w) /\ DestroyFreesHeader(w)

\* C17: a tree allocates its header once, at construction, and frees it at
\* destruction: after the destructor has run, neither the header nor any
\* node of the tree remains allocated.
C17_DestructionFreesAll == \A swap \in BOOLEAN : C17_Holds(On(t, swap))

\* the nodes of the tree in symmetric order, read off the links
SortedOrder(tr) == Flatten(tr, root(tr))

\* the positions met by stepping back from end() with the iterator's dec()
RECURSIVE WalkBack(_, _, _)
WalkBack(tr, n, fuel) ==
    IF n = begin(tr) \/ fuel = 0 THEN <<>>
    ELSE <<dec(tr, n)>> \o WalkBack(tr, dec(tr, n), fuel - 1)

Reversed(s) == [i \in DOMAIN s |-> s[Len(s) + 1 - i]]

C18_Forward(tr, s) ==
    /\ begin(tr) = s[1]
    /\ \A i \in 1..(Len(s) - 1) : inc(tr, s[i]) = s[i + 1]
    /\ inc(tr, s[Len(s)]) = end(tr)
    /\ Len(InOrderNodes(tr)) = tr.node_count_
    /\ InOrderNodes(tr) = s

C18_Backward(tr, s) ==
    /\ dec(tr, end(tr)) = s[Len(s)]
    /\ \A i \in 2..Len(s) : dec(tr, s[i]) = s[i - 1]
    /\ WalkBack(tr, end(tr), MaxNodes + 2) = Reversed(s)

C18_Holds(tr) ==
    tr.node_count_ > 0 =>
        /\ Len(SortedOrder(tr)) = tr.node_count_
        /\ NonDecreasing(KeysOf(tr, SortedOrder(tr)))
        /\ C18_Forward(tr, SortedOrder(tr))
        /\ C18_Backward(tr, SortedOrder(tr))

\* C18: in every non-empty tree, incrementing a position moves to the next
\* element in sorted order and incrementing the last one gives end();
\* decrementing end() gives the last element and decrementing any position
\* other than begin() gives the previous element; walking forward from
\* begin() reaches end() after exactly size() increments and walking back
\* from end() visits the same elements in reverse.
C18_IteratorSteps == C18_Holds(t)

\* a tree of three levels in which an increment climbs past two parents and
\* a decrement starts from end()
C18_Witness ==
    /\ t.node_count_ >= 4
    /\ \E n \in t.alloc :
           /\ t.right[n] = NIL
           /\ n = t.right[t.parent[n]]
           /\ inc(t, n) \in t.alloc
           /\ inc(t, n) # t.parent[t.parent[n]] \/ t.parent[n] = t.left[inc(t, n)]
    /\ dec(t, end(t)) = rightmost(t)
    /\ C18_Holds(t)

\* the index of node n in the sequence s of distinct nodes
IndexOf(s, n) == CHOOSE i \in DOMAIN s : s[i] = n

\* the position after the i-th element of s, end() after the last
Following(tr, s, i) == IF i = Len(s) THEN end(tr) ELSE s[i + 1]

\* position p can be used in tree tr: it is end() or one of its elements
ValidIn(tr, p) == p = end(tr) \/ \E i \in DOMAIN InOrderNodes(tr) : InOrderNodes(tr)[i] = p

C19_Holds(tr, pos, r) ==
    /\ r.it = Following(tr, SortedOrder(tr), IndexOf(SortedOrder(tr), pos))
    /\ ValidIn(r.tr, r.it)
    /\ r.it # pos
    /\ r.it # end(tr) => r.tr.value[r.it] = tr.value[r.it]
    /\ r.it = Following(r.tr, SortedOrder(r.tr), IndexOf(SortedOrder(tr), pos) - 1)

\* C19: erase(pos) returns the position of the element that followed pos
\* before the erase, end() when pos was the last element, and the returned
\* position is valid in the resulting tree.
C19_EraseReturnsNext == \A pos \in t.alloc : C19_Holds(t, pos, erase(t, pos))

\* the erase of a node with two children returns its successor, and the
\* erase of the last element returns end()
C19_Witness ==
    /\ \E pos \in t.alloc :
           /\ t.left[pos] # NIL /\ t.right[pos] # NIL
           /\ erase(t, pos).it = rb_tree_next(t, pos)
           /\ erase(t, pos).it \in erase(t, pos).tr.alloc
    /\ t.node_count_ >= 3
    /\ erase(t, rightmost(t)).it = end(t)

\* the positions of tr in order, end() last
AllPositions(tr) == SortedOrder(tr) \o <<end(tr)>>

\* the range [first, last) of tr, first and last given by their indices
RangeNodes(tr, i, j) == {AllPositions(tr)[k] : k \in i..(j - 1)}

C20_Holds(tr, i, j, new) ==
    /\ new.node_count_ = tr.node_count_ - (j - i)
    /\ new.alloc = tr.alloc \ RangeNodes(tr, i, j)
    /\ KeepsNodes(new, tr)
    /\ SortedOrder(new) =
           SelectSeq(SortedOrder(tr), LAMBDA e : e \notin RangeNodes(tr, i, j))
    /\ InOrderNodes(new) = SortedOrder(new)
    /\ i = 1 /\ j = tr.node_count_ + 1 =>
           new.node_count_ = 0 /\ begin(new) = end(new) /\ new.alloc = {}

\* C20: erase(first, last) removes exactly the elements of [first, last):
\* the size drops by the length of the range, the other elements remain, in
\* the same relative order, and erase(begin(), end()) leaves the tree empty.
C20_EraseRange ==
    \A j \in 1..(t.node_count_ + 1) :
        \A i \in 1..j :
            C20_Holds(t, i, j, erase_range(t, AllPositions(t)[i], AllPositions(t)[j]))

\* a range that starts at begin(), stops before end() and holds a node with
\* two children is erased, elements being left on its right
C20_Witness ==
    /\ t.node_count_ >= 5
    /\ \E j \in 3..t.node_count_ :
           /\ \E n \in RangeNodes(t, 1, j) : t.left[n] # NIL /\ t.right[n] # NIL
           /\ erase_range(t, begin(t), AllPositions(t)[j]).node_count_
                  = t.node_count_ - (j - 1)
    /\ erase_range(t, begin(t), end(t)).node_count_ = 0

\* every member of the sequence s occurs in it once
NoRepeat(s) == \A i, j \in DOMAIN s : s[i] = s[j] => i = j

\* the set of the members of the sequence s
Members(s) == {s[i] : i \in DOMAIN s}

\* clear() called on tr destroys each node of tr once and no other
C21_ReleasesOnce(tr) ==
    tr.node_count_ # 0 =>
        /\ NoRepeat(erase_since_destroyed(tr, root(tr)))
        /\ Members(erase_since_destroyed(tr, root(tr))) = tr.alloc
        /\ Len(erase_since_destroyed(tr, root(tr))) = tr.node_count_

\* tr, just cleared, answers calls as a new tree does
C21_AsNew(tr) ==
    \A k \in Keys :
        /\ find(tr, k) = end(tr)
        /\ erase_multi(tr, k).n = 0
        /\ insert_unique(tr, k) = insert_unique(rb_tree_init, k)
        /\ insert_multi(tr, k) = insert_multi(rb_tree_init, k)
        /\ \A j \in Keys :
               insert_multi(insert_unique(tr, k).tr, j)
                   = insert_multi(insert_unique(rb_tree_init, k).tr, j)

C21_Holds(tr, new) ==
    /\ C21_ReleasesOnce(tr)
    /\ new.alloc = {}
    /\ new.node_count_ = 0
    /\ root(new) = NIL
    /\ leftmost(new) = tr.header_ /\ rightmost(new) = tr.header_
    /\ new.header_ = tr.header_ /\ new.halloc = tr.halloc
    /\ new.color[new.header_] = tr.color[tr.header_]
    /\ Fresh(new)
    /\ C21_AsNew(new)

\* C21: clear() on any tree releases every node exactly once and leaves size
\* 0, a null root and leftmost and rightmost designating the header, which
\* is the one the tree had; afterwards the tree behaves as a freshly
\* constructed one for any further sequence of operations.
C21_Clear == C21_Holds(t, clear(t))

\* a tree with nodes on three levels on both sides of the root is cleared
C21_Witness ==
    /\ t.node_count_ >= 6
    /\ t.left[root(t)] # NIL /\ t.right[root(t)] # NIL
    /\ t.left[t.left[root(t)]] # NIL /\ t.left[t.right[root(t)]] # NIL
    /\ clear(t) = rb_tree_init

\* the number of nodes on the longest path from n down to a null position
RECURSIVE Height(_, _)
Deeper(l, r) == IF l < r THEN r ELSE l

Height(tr, n) ==
    IF n = NIL THEN 0
    ELSE 1 + Deeper(Height(tr, tr.left[n]), Height(tr, tr.right[n]))

RECURSIVE Pow2(_)
Pow2(e) == IF e = 0 THEN 1 ELSE 2 * Pow2(e - 1)

\* the tree that holds 1..n, inserted in increasing order
RECURSIVE IncreasingBuild(_)
IncreasingBuild(n) ==
    IF n = 0 THEN rb_tree_init
    ELSE Normalize(insert_unique(IncreasingBuild(n - 1), n).tr)

\* the two facts the bound rests on: no path is longer than twice the black
\* height, and a tree of black height b has at least 2^b - 1 nodes
C22_ByBlackHeight(tr) ==
    /\ Height(tr, root(tr)) <= 2 * BlackCount(tr, root(tr))
    /\ Pow2(BlackCount(tr, root(tr))) <= tr.node_count_ + 1

C22_Holds(tr) ==
    /\ Pow2(Height(tr, root(tr))) <= (tr.node_count_ + 1) * (tr.node_count_ + 1)
    /\ C22_ByBlackHeight(tr)

\* C22: after any sequence of inserts and erases, a tree of n elements has
\* height h, the number of nodes on the longest path from the root to a null
\* position, with 2^h <= (n + 1)^2, that is h <= 2 * log2(n + 1); so it is
\* after the keys have been inserted in strictly increasing order.
C22_HeightBound ==
    /\ C22_Holds(t)
    /\ \A n \in 0..MaxNodes : C22_Holds(IncreasingBuild(n))

\* the tree built from 1..MaxNodes in increasing order, whose right spine is
\* longer than its left one
C22_Witness ==
    /\ t = IncreasingBuild(MaxNodes)
    /\ t.node_count_ = MaxNodes
    /\ Height(t, t.right[root(t)]) > Height(t, t.left[root(t)])
    /\ C22_Holds(t)

\* the header's left and right links and the size agree with the nodes below
\* the root
C23_Holds(tr) ==
    /\ tr.node_count_ = Len(SortedOrder(tr))
    /\ NonDecreasing(KeysOf(tr, SortedOrder(tr)))
    /\ IF SortedOrder(tr) = <<>>
       THEN tr.left[tr.header_] = tr.header_ /\ tr.right[tr.header_] = tr.header_
       ELSE /\ tr.left[tr.header_] = SortedOrder(tr)[1]
            /\ tr.right[tr.header_] = SortedOrder(tr)[Len(SortedOrder(tr))]

\* C23: after every public operation the header's cached links match the
\* node graph: header.left designates the first element in sorted order,
\* header.right the last, both designate the header itself when the tree is
\* empty, and size() is the number of nodes reachable from the root.
C23_HeaderCache == C23_Holds(t)

\* a tree whose first element has a right child and whose last has a left
\* child: erasing either makes that child the cached end
C23_Witness ==
    /\ t.node_count_ >= 4
    /\ t.right[leftmost(t)] # NIL
    /\ t.left[rightmost(t)] # NIL
    /\ leftmost(erase(t, leftmost(t)).tr) = t.right[leftmost(t)]
    /\ rightmost(erase(t, rightmost(t)).tr) = t.left[rightmost(t)]
    /\ C23_Holds(t)

\* the root of a non-empty tree is black
RootBlack(tr) == tr.node_count_ > 0 => tr.color[root(tr)] = rb_tree_black

\* C24: after every insert and after every erase that leaves the tree
\* non-empty, the root node is black.
C24_RootBlack ==
    /\ RootBlack(t)
    /\ \A pos \in t.alloc : RootBlack(erase(t, pos).tr)
    /\ Room(t) =>
          \A k \in Keys :
              /\ RootBlack(insert_unique(t, k).tr)
              /\ RootBlack(insert_multi(t, k).tr)
              /\ \A hint \in Positions(t) :
                     /\ RootBlack(emplace_unique_use_hint(t, hint, k).tr)
                     /\ RootBlack(emplace_multi_use_hint(t, hint, k).tr)

\* an insert that gives the tree another root, and an erase of the root
\* that puts a red node in its place
C24_Witness ==
    /\ t.node_count_ >= 2
    /\ Room(t)
    /\ \E k \in Keys :
           /\ root(insert_multi(t, k).tr) # root(t)
           /\ RootBlack(insert_multi(t, k).tr)
    /\ root(erase(t, root(t)).tr) \in t.alloc
    /\ rb_tree_is_red(t, root(erase(t, root(t)).tr))
    /\ RootBlack(erase(t, root(t)).tr)

\* C25: the sentinel header node, that is the root's parent, is coloured
\* black in every state the tree is in between public operations.
C25_HeaderBlack == t.color[t.header_] = rb_tree_black

\* the header is red, and it is the parent of the root when there is one
HeaderRed(tr) ==
    /\ tr.color[tr.header_] = rb_tree_red
    /\ root(tr) # NIL => tr.parent[root(tr)] = tr.header_

\* C25 as amended: the sentinel header node, that is the root's parent, is
\* coloured red in every state the tree is in between public operations.
C25_HeaderRedBetweenCalls ==
    /\ HeaderRed(t)
    /\ HeaderRed(clear(t))
    /\ \A pos \in t.alloc : HeaderRed(erase(t, pos).tr)
    /\ Room(t) =>
          \A k \in Keys :
              /\ HeaderRed(insert_unique(t, k).tr)
              /\ HeaderRed(insert_multi(t, k).tr)

\* a tree with a black root below the red header, in which the decrement of
\* end() tells the header from the root by its colour
C25_Witness ==
    /\ t.node_count_ >= MaxNodes - 1
    /\ t.color[root(t)] = rb_tree_black
    /\ t.parent[t.parent[root(t)]] = root(t)
    /\ HeaderRed(t)
    /\ dec(t, end(t)) = rightmost(t)
    /\ dec(t, end(t)) # dec_without_header_case(t, end(t))

\* node n hangs in new where node z hung in old: below the same parent, on
\* the same side, or as the root
InPlaceOf(old, z, new, n) ==
    /\ n # NIL => new.parent[n] = old.parent[z]
    /\ IF root(old) = z THEN root(new) = n
       ELSE IF rb_tree_is_lchild(old, z)
            THEN new.left[old.parent[z]] = n
            ELSE new.right[old.parent[z]] = n

\* z has two children: after the relinking phase u its successor y stands
\* where z stood, with z's children and z's colour, and the fixup runs
\* exactly when y was black
C26_TwoChildren(tr, z, y, x, u) ==
    /\ InPlaceOf(tr, z, u.tr, y)
    /\ u.tr.left[y] = tr.left[z] /\ u.tr.parent[tr.left[z]] = y
    /\ IF y = tr.right[z]
       THEN u.tr.right[y] = tr.right[y]
       ELSE /\ u.tr.right[y] = tr.right[z] /\ u.tr.parent[tr.right[z]] = y
            /\ InPlaceOf(tr, y, u.tr, x)
    /\ u.tr.color[y] = tr.color[z]
    /\ SortedOrder(u.tr) = Without(SortedOrder(tr), z)
    /\ erase_needs_fixup(u.tr, z) <=> tr.color[y] = rb_tree_black
    /\ tr.color[y] = rb_tree_red => rb_tree_erase_rebalance(tr, z) = u.tr

\* z has at most one child x: after the unlinking phase u, x (or nothing)
\* stands where z stood and the fixup runs exactly when z was black
C26_OneChild(tr, z, x, u) ==
    /\ InPlaceOf(tr, z, u.tr, x)
    /\ x # NIL => u.tr.color[x] = tr.color[x]
    /\ SortedOrder(u.tr) = Without(SortedOrder(tr), z)
    /\ erase_needs_fixup(u.tr, z) <=> tr.color[z] = rb_tree_black
    /\ tr.color[z] = rb_tree_red => rb_tree_erase_rebalance(tr, z) = u.tr

C26_Holds(tr, z, y, x) ==
    IF y # z
    THEN C26_TwoChildren(tr, z, y, x, erase_relink_two(tr, z, y, x))
    ELSE C26_OneChild(tr, z, x, erase_unlink_one(tr, z, x))

\* the node that is unlinked when z is erased, and its only child
ErasedNode(tr, z) ==
    IF tr.left[z] = NIL \/ tr.right[z] = NIL THEN z ELSE rb_tree_next(tr, z)

OnlyChild(tr, y) == IF tr.left[y] # NIL THEN tr.left[y] ELSE tr.right[y]

\* C26: when erase targets a node with two children, its in-order successor
\* is relinked into the target's position and takes the target's colour,
\* and the delete fixup runs exactly when the successor's original colour
\* was black; when the target has at most one child, its child (or nothing)
\* takes its place and the fixup runs exactly when the target was black.
C26_EraseRelinks ==
    \A z \in t.alloc :
        C26_Holds(t, z, ErasedNode(t, z), OnlyChild(t, ErasedNode(t, z)))

\* a tree with a node of two children whose successor is not its right child
\* and has the other colour, and a black node with one child
C26_Witness ==
    /\ \E z \in t.alloc :
           /\ t.left[z] # NIL /\ t.right[z] # NIL
           /\ ErasedNode(t, z) # t.right[z]
           /\ t.color[ErasedNode(t, z)] # t.color[z]
           /\ erase_relink_two(t, z, ErasedNode(t, z),
                               OnlyChild(t, ErasedNode(t, z))).tr.color[ErasedNode(t, z)]
                  = t.color[z]
    /\ \E z \in t.alloc :
           /\ t.color[z] = rb_tree_black
           /\ (t.left[z] = NIL) # (t.right[z] = NIL)
           /\ erase_needs_fixup(erase_unlink_one(t, z, OnlyChild(t, z)).tr, z)

\* the three links of address a
Links(tr, a) == <<tr.parent[a], tr.left[a], tr.right[a]>>

\* every child's parent link points back at its parent, the root's at the
\* header
ParentsPointBack(tr) ==
    /\ root(tr) # NIL => tr.parent[root(tr)] = tr.header_
    /\ \A n \in tr.alloc :
           /\ tr.left[n] # NIL => tr.parent[tr.left[n]] = n
           /\ tr.right[n] # NIL => tr.parent[tr.right[n]] = n

\* new is old rotated at x with pivot y, whose subtree inner changed sides
C27_Rotated(old, new, x, y, inner) ==
    /\ new.alloc = old.alloc
    /\ new.node_count_ = old.node_count_
    /\ new.header_ = old.header_
    /\ new.value = old.value
    /\ new.color = old.color
    /\ SortedOrder(new) = SortedOrder(old)
    /\ InOrderNodes(new) = InOrderNodes(old)
    /\ \A a \in Addrs \ {x, y, inner, old.parent[x]} : Links(new, a) = Links(old, a)
    /\ leftmost(new) = leftmost(old) /\ rightmost(new) = rightmost(old)
    /\ ParentsPointBack(new)
    /\ new.parent[x] = y /\ new.parent[y] = old.parent[x]
    /\ inner # NIL => new.parent[inner] = x
    /\ root(old) = x => root(new) = y
    /\ root(old) # x => root(new) = root(old)

\* C27: rotate_left(x), for x with a right child, and rotate_right(x), for
\* x with a left child, leave the set of nodes, every payload, every colour
\* and the in-order sequence of the nodes unchanged; they change links only
\* on x, its pivot child, the root of the pivot's inner subtree and x's
\* former parent, keep every child's parent link pointing back at its
\* parent, and make the pivot the root when x was the root.
C27_Rotations ==
    \A x \in t.alloc :
        /\ t.right[x] # NIL =>
               /\ C27_Rotated(t, rb_tree_rotate_left(t, x), x, t.right[x],
                              t.left[t.right[x]])
               /\ rb_tree_rotate_left(t, x).left[t.right[x]] = x
               /\ rb_tree_rotate_left(t, x).right[x] = t.left[t.right[x]]
        /\ t.left[x] # NIL =>
               /\ C27_Rotated(t, rb_tree_rotate_right(t, x), x, t.left[x],
                              t.right[t.left[x]])
               /\ rb_tree_rotate_right(t, x).right[t.left[x]] = x
               /\ rb_tree_rotate_right(t, x).left[x] = t.right[t.left[x]]

\* the root is rotated left with a subtree changing sides, and a node below
\* the root is rotated right with a subtree changing sides
C27_Witness ==
    /\ t.node_count_ >= 5
    /\ t.right[root(t)] # NIL /\ t.left[t.right[root(t)]] # NIL
    /\ root(rb_tree_rotate_left(t, root(t))) = t.right[root(t)]
    /\ \E x \in t.alloc \ {root(t)} :
           /\ t.left[x] # NIL /\ t.right[t.left[x]] # NIL
           /\ rb_tree_rotate_right(t, x).parent[t.right[t.left[x]]] = x

\* the rotations of all passes of a run
RECURSIVE Rotations(_)
Rotations(steps) ==
    IF steps = <<>> THEN 0 ELSE steps[1].rotations + Rotations(Tail(steps))

\* the places where a node can be linked: below the header of an empty tree,
\* or on a free side of a node
FreePlaces(tr) ==
    IF root(tr) = NIL THEN {[first |-> tr.header_, second |-> TRUE]}
    ELSE {[first |-> n, second |-> TRUE] : n \in {m \in tr.alloc : tr.left[m] = NIL}}
         \cup {[first |-> n, second |-> FALSE] : n \in {m \in tr.alloc : tr.right[m] = NIL}}

\* an address no node of the tree has, for the node being inserted
NewNode == MaxDeep + 1

\* the tree with NewNode linked at place, coloured red, the fixup loop about
\* to start from it
Linked(tr, place) ==
    rb_tree_set_red(insert_node_link(tr, place.first, NewNode, place.second), NewNode)

\* the run of the insert fixup is the loop's; only its last pass rotates;
\* every recolouring pass moves x up two levels, so there are no more of
\* them than half the depth of the new node; at most two rotations are made
C28_InsertRun(tr, run) ==
    /\ run.tr = insert_rebalance_loop(tr, NewNode)
    /\ \A i \in 1..(Len(run.steps) - 1) : run.steps[i].kind = "recolor"
    /\ \A i \in DOMAIN run.steps :
           run.steps[i].kind = "recolor" => run.steps[i].up = 2
    /\ 2 * Cardinality({i \in DOMAIN run.steps : run.steps[i].kind = "recolor"})
           <= Depth(tr, NewNode)
    /\ Rotations(run.steps) <= 2

\* the run of the delete fixup is the loop's; only its last pass can be one
\* of case 4; each pass starts higher in the tree than the one before it; at
\* most three rotations are made
C28_EraseRun(u, x, run) ==
    /\ run.tr = erase_rebalance_loop(u.tr, x, u.xp).tr
    /\ run.x = erase_rebalance_loop(u.tr, x, u.xp).x
    /\ \A i \in 1..(Len(run.steps) - 1) :
           /\ run.steps[i].kind = "case2"
           /\ run.steps[i + 1].level < run.steps[i].level
    /\ Rotations(run.steps) <= 3

\* the tree after the first phase of the erase of z
Unlinked(tr, z) ==
    IF ErasedNode(tr, z) # z
    THEN erase_relink_two(tr, z, ErasedNode(tr, z), OnlyChild(tr, ErasedNode(tr, z)))
    ELSE erase_unlink_one(tr, z, OnlyChild(tr, z))

EraseRun(tr, z) ==
    erase_rebalance_run(Unlinked(tr, z).tr, OnlyChild(tr, ErasedNode(tr, z)),
                        Unlinked(tr, z).xp)

\* C28: every run of the insert fixup on a well-formed tree terminates:
\* each uncle-red pass moves x two levels toward the root and the first
\* uncle-black pass ends the loop, so one insertion makes at most two
\* rotations; every run of the delete fixup terminates and one erase makes
\* at most three rotations.
C28_FixupsTerminate ==
    /\ \A place \in FreePlaces(t) :
           C28_InsertRun(Linked(t, place),
                         insert_rebalance_run(Linked(t, place), NewNode))
    /\ \A z \in t.alloc :
           erase_needs_fixup(Unlinked(t, z).tr, z) =>
               C28_EraseRun(Unlinked(t, z), OnlyChild(t, ErasedNode(t, z)),
                            EraseRun(t, z))

\* a tree in which an insert rotates twice, the erase of one node takes two
\* passes of the delete fixup and the erase of another rotates three times
C28_Witness ==
    /\ \E place \in FreePlaces(t) :
           Rotations(insert_rebalance_run(Linked(t, place), NewNode).steps) = 2
    /\ \E z \in t.alloc :
           /\ erase_needs_fixup(Unlinked(t, z).tr, z)
           /\ Len(EraseRun(t, z).steps) = 2
    /\ \E z \in t.alloc :
           /\ erase_needs_fixup(Unlinked(t, z).tr, z)
           /\ Rotations(EraseRun(t, z).steps) = 3

\* the nodes met on the way down from n, left to right, each as often as
\* there are ways to it, no further than depth links down
RECURSIVE Below(_, _, _)
Below(tr, n, depth) ==
    IF n = NIL \/ depth = 0 THEN <<>>
    ELSE Below(tr, tr.left[n], depth - 1) \o <<n>> \o Below(tr, tr.right[n], depth - 1)

\* every node is reached from the root by exactly one path: none is met
\* twice, none is out of reach, and no path is longer than there are nodes
OnePathEach(tr) ==
    /\ NoRepeat(Below(tr, root(tr), MaxNodes + 2))
    /\ Members(Below(tr, root(tr), MaxNodes + 2)) = tr.alloc
    /\ Below(tr, root(tr), MaxNodes + 2) = Below(tr, root(tr), MaxNodes + 1)

C29_Holds(tr) ==
    /\ tr.parent[tr.header_] = root(tr)
    /\ tr.node_count_ = 0 <=> root(tr) = NIL
    /\ root(tr) # NIL => root(tr) \in tr.alloc
    /\ ParentsPointBack(tr)
    /\ \A n \in tr.alloc :
           /\ tr.left[n] # NIL => tr.left[n] \in tr.alloc
           /\ tr.right[n] # NIL => tr.right[n] \in tr.alloc
    /\ OnePathEach(tr)

\* C29: after every public operation the links are mutually consistent:
\* header.parent is the root (null when the tree is empty) and the root's
\* parent is the header; for every node n a non-null n.left has parent n and
\* a non-null n.right has parent n; and every node is reachable from the
\* root by exactly one path (no cycle, no sharing).
C29_LinksConsistent == C29_Holds(t)

\* a tree in which the erase of a node with one child hands the child to the
\* node's parent, and the erase of a node with two children relinks its
\* successor from further down
C29_Witness ==
    /\ t.node_count_ >= 5
    /\ \E z \in t.alloc \ {root(t)} :
           /\ (t.left[z] = NIL) # (t.right[z] = NIL)
           /\ erase(t, z).tr.parent[OnlyChild(t, z)] = t.parent[z]
    /\ \E z \in t.alloc :
           /\ t.left[z] # NIL /\ t.right[z] # NIL
           /\ ErasedNode(t, z) # t.right[z]
           /\ C29_Holds(erase(t, z).tr)
    /\ C29_Holds(t)

\* a = move(b), called on a in memory w, gives back the nodes a had
MoveAssignFreesNodes(w) == TreeNodes(w) \cap move_assign(w).alloc = {}

\* ... and the header a had
MoveAssignFreesHeader(w) == w.header_ \notin move_assign(w).halloc

\* every allocated node and header of memory m belongs to exactly one of
\* the two trees
OwnedOnce(m) ==
    /\ m.alloc = TreeNodes(m) \cup TreeNodes(Swap(m))
    /\ TreeNodes(m) \cap TreeNodes(Swap(m)) = {}
    /\ m.halloc = {m.header_, m.rhs.header_}
    /\ m.header_ # m.rhs.header_

C30_Holds(w) ==
    Alive(w) /\ RhsAlive(w) /\ HeaderRoom(w) /\ OwnedOnce(w) =>
        /\ MoveAssignFreesNodes(w)
        /\ MoveAssignFreesHeader(w)
        /\ OwnedOnce(move_assign(w))

\* C30: move assignment a = move(b) between distinct trees releases every
\* node and the header that a owned before the assignment: after the call
\* none of a's former storage remains allocated and every allocated node
\* or header is owned by exactly one live tree.
C30_MoveAssignReleases == \A swap \in BOOLEAN : C30_Holds(On(t, swap))

====
